---- MODULE Spec2Model ----
(***************************************************************************)
(* Session store and interactive flows of the face-swap bot.               *)
(*                                                                         *)
(* The state manager (activeSearches, nativeGifStates), the button         *)
(* handlers that page through a GIF search, pick a GIF, pick or upload a   *)
(* face, and the asynchronous swap jobs are modelled as a state machine.   *)
(* Every await in a handler is a point where other handlers, timers and    *)
(* jobs may run; the code between two awaits is one atomic step.           *)
(*                                                                         *)
(* Time is the value of Date.now() in milliseconds; it advances in steps   *)
(* of TickMs.                                                              *)
(*                                                                         *)
(* The handlers are the boundary of the model: a button interaction may    *)
(* arrive from any user for any session id the bot has put into a button,  *)
(* whatever message Discord shows to whom.                                 *)
(***************************************************************************)
EXTENDS Integers, Sequences, FiniteSets, TLC

----------------------------------------------------------------------------
(* Bounds of the model *)

\* Largest number of GIFs one search returns in the model (the program asks
\* Tenor for at most 50).
MaxResults == 23

\* Number of clock steps of TickMs the model lets pass.
MaxTicks == 3

\* One clock step: five minutes in milliseconds.
TickMs == 5 * 60 * 1000

\* Swap jobs (face select or accepted upload) started in one run.
MaxFlows == 2

\* Upload collectors opened in one run.
MaxCollectors == 1

\* "Face Swap This GIF" sessions created in one run.
MaxSessions == 1

\* Ids of "Face Swap This GIF" sessions issued in the model of the session ids.
MaxIdSessions == 2

\* Calls of recordAction in the model of interleaved recordings.
MaxRecordCalls == 3

\* Upload collectors opened in the model of repeated upload presses.
MaxOpenCollectors == 2

\* Number of clock steps in the model of the upload windows.
UploadTicks == 1

\* Longest row of face-swap timestamps a user records in the rate limiter model
MaxRecords == 5

\* Sessions created from one message in the model of GIF messages
MaxSpawned == 2

\* /savemyface collectors opened in one run of the model of saved faces
MaxSaveCollectors == 2

\* Longest row of search timestamps in the rate limiter model
MaxSearchRecords == 10

Users == {"u1", "u2"}

\* Ids of the messages that carry a GIF or not; Author(m) posted message m.
Messages == {"m1", "m2"}

Author(m) == IF m = "m1" THEN "u1" ELSE "u2"

\* Users who saved a face before the run.
FaceOwners == {"u1"}

\* Discord interaction ids (snowflakes), unique per interaction.
InteractionIds == {"i1"}

----------------------------------------------------------------------------
(* Program constants *)

PAGE_SIZE == 9

STATE_TIMEOUT == 10 * 60 * 1000

NATIVE_GIF_TIMEOUT == 5 * 60 * 1000

\* time of the collector of waitForFaceUpload and of /savemyface
UPLOAD_WINDOW == 5 * 60 * 1000

\* time of the collector of handleNativeGifFaceUpload
NATIVE_UPLOAD_WINDOW == 2 * 60 * 1000

MAX_FACES_PER_USER == 3

\* validImageTypes of waitForFaceUpload
validImageTypes == {"image/png", "image/jpeg", "image/jpg", "image/webp",
                    "image/avif", "image/tiff", "image/bmp"}

\* Content types of the attachments the model sends; "none" is a message
\* without attachment.
ContentTypes == {"none", "image/png", "image/gif", "text/plain"}

\* a test of the content type that every attachment passes
StartsWithAnything(ty) == ty # "none"

\* String.prototype.startsWith("image/") on the content types above
StartsWithImage(ty) == ty \in {"image/png", "image/gif"} \cup validImageTypes

----------------------------------------------------------------------------
(* Values *)

\* An optional value: absent (undefined) or present.
None == << >>

Some(v) == <<v>>

Min(a, b) == IF a < b THEN a ELSE b

Max(a, b) == IF a > b THEN a ELSE b

\* Math.ceil(a / b) for a >= 0, b > 0.
Ceil(a, b) == IF a % b = 0 THEN a \div b ELSE (a \div b) + 1

\* Array.prototype.slice(start, end) for 0 <= start <= end: elements with
\* 0-based index start .. end-1, clamped to the array.
Slice(arr, start, end) ==
    LET from == Min(start, Len(arr))
        to == Min(end, Len(arr))
    IN  [i \in 1..Max(to - from, 0) |-> arr[from + i]]

\* The result list Tenor returns for a search with n hits: item k (0-based)
\* is identified by k.
TenorResults(n) == [i \in 1..n |-> i - 1]

----------------------------------------------------------------------------
(* State *)

VARIABLES
    now,              \* Date.now()
    activeSearches,   \* Map searchId -> SearchState
    nativeGifStates,  \* Map sessionId -> NativeGifState
    savedFaces,       \* table saved_faces: face id -> row
    collectors,       \* message collectors opened so far: number -> collector
    flows,            \* swap jobs in flight: number -> job
    flowCount,        \* jobs started so far
    usedInteractions, \* interaction ids Discord has already issued
    issued,           \* session ids the bot has put into buttons it rendered
    sessionLog,       \* per session: externally observable state, remote jobs
    rateLimits,       \* table rate_limits: (user, action kind) -> timestamps
    processedMessages, \* ids of the messages handled since the set was cleared
    spawned,          \* per message id: sessions created from it so far
    out               \* what the step just taken told the user

vars == <<now, activeSearches, nativeGifStates, savedFaces, collectors, flows,
          flowCount, usedInteractions, issued, sessionLog, rateLimits,
          processedMessages,
          spawned,
          out>>

\* The step just taken sent nothing to the user.
NoOut == [action |-> "none", user |-> "none", id |-> None, msg |-> "none",
          data |-> None]

Reply(action, user, id, msg) ==
    [action |-> action, user |-> user, id |-> Some(id), msg |-> msg,
     data |-> None]

\* A reply that carries rows of buttons.
ReplyWith(action, user, id, msg, rows) ==
    [action |-> action, user |-> user, id |-> Some(id), msg |-> msg,
     data |-> Some(rows)]

EmptyMap == [id \in {} |-> None]

\* map with key k set to v (Map.prototype.set)
MapSet(map, k, v) == [id \in DOMAIN map \cup {k} |-> IF id = k THEN v ELSE map[id]]

\* map without key k (Map.prototype.delete)
MapDelete(map, k) == [id \in DOMAIN map \ {k} |-> map[id]]

----------------------------------------------------------------------------
(* Externally observable state of a session (one of the states of the flow).
   The program keeps no such field; it is recorded here from the step each
   handler takes: the state entered last, the states entered so far and the
   number of remote face-swap jobs created for the session.  Discord's side
   of a session is recorded with it: the kind of channel the flow was
   triggered in (origin), the kind of channel its buttons were posted to and
   its interactions therefore come from (via), and the kind of channel the
   result was sent to (sentTo, "none" while nothing was sent). *)

\* channel.isDMBased() is true of "dm"; both kinds are text based
ChannelKinds == {"guild", "dm"}

NewLog == [phase |-> "CREATED", visited |-> {"CREATED"}, jobs |-> 0,
           origin |-> "guild", via |-> "guild", sentTo |-> "none"]

NewLogIn(origin, via) == [NewLog EXCEPT !.origin = origin, !.via = via]

Enter(log, s, p) ==
    [log EXCEPT ![s] = [@ EXCEPT !.phase = p, !.visited = @ \cup {p}]]

\* Enter p only if the session is in the store (a sweep that removes it).
EnterAll(log, ids, p) ==
    [s \in DOMAIN log |->
        IF s \in ids THEN [log[s] EXCEPT !.phase = p, !.visited = @ \cup {p}]
        ELSE log[s]]

JobCreated(log, s) == [log EXCEPT ![s] = [@ EXCEPT !.jobs = @ + 1]]

\* The result of a session's job is sent: a slash command edits its reply
\* (in the channel of the command); the GIF flows call channel.send only
\* `if (channel.isTextBased() && !channel.isDMBased())`.
SendResult(log, kind, s) ==
    [log EXCEPT ![s] = [@ EXCEPT !.sentTo =
        IF kind \in {"image", "video"} THEN log[s].via
        ELSE IF log[s].via # "dm" THEN log[s].via
        ELSE "none"]]

----------------------------------------------------------------------------
(* State manager: search states *)

createSearchState(store, searchId, results, userId, t) ==
    LET state == [searchId |-> searchId,
                  results |-> results,
                  currentPage |-> 0,
                  totalPages |-> Ceil(Len(results), PAGE_SIZE),
                  userId |-> userId,
                  selectedGif |-> None,
                  timestamp |-> t]
    IN  MapSet(store, searchId, state)

getSearchState(store, searchId) ==
    IF searchId \in DOMAIN store THEN Some(store[searchId]) ELSE None

\* an assignment that refreshes the timestamp and drops the updates
AssignTimestampOnly(state, updates, t) ==
    [k \in DOMAIN state |-> IF k = "timestamp" THEN t ELSE state[k]]

\* Object.assign(state, updates, { timestamp: Date.now() })
AssignUpdates(state, updates, t) ==
    [k \in DOMAIN state |->
        IF k = "timestamp" THEN t
        ELSE IF k \in DOMAIN updates THEN updates[k]
        ELSE state[k]]

\* What the map holds after the write of an update.  In the program the
\* store is a Map and the write always lands (fault = "none"); "lost" and
\* "gone" are the storage faults a test double of the store simulates: the
\* write is dropped, or the record disappears.
StoreAfterWrite(store, id, written, fault) ==
    CASE fault = "none" -> MapSet(store, id, written)
      [] fault = "lost" -> store
      [] fault = "gone" -> MapDelete(store, id)

StoreFaults == {"none", "lost", "gone"}

updateSearchState(store, searchId, updates, t, fault) ==
    IF searchId \notin DOMAIN store
    THEN [store |-> store, success |-> FALSE, error |-> "Search state not found"]
    ELSE
      LET written == AssignUpdates(store[searchId], updates, t)
          after == StoreAfterWrite(store, searchId, written, fault)
          verifyState == getSearchState(after, searchId)
      IN  IF verifyState = None
          THEN [store |-> after, success |-> FALSE,
                error |-> "State verification failed"]
          ELSE IF \E key \in DOMAIN updates :
                    key # "timestamp" /\ verifyState[1][key] # updates[key]
          THEN [store |-> after, success |-> FALSE,
                error |-> "Update verification failed"]
          ELSE [store |-> after, success |-> TRUE, error |-> ""]

deleteSearchState(store, searchId) == MapDelete(store, searchId)

\* a page that starts one item late
getCurrentPageGifsShifted(state) ==
    LET startIndex == state.currentPage * PAGE_SIZE + 1
    IN  Slice(state.results, startIndex, startIndex + PAGE_SIZE)

\* the GIFs of the first page, whatever the current page is
getCurrentPageGifsFirstPage(state) == Slice(state.results, 0, PAGE_SIZE)

getCurrentPageGifs(state) ==
    LET startIndex == state.currentPage * PAGE_SIZE
    IN  Slice(state.results, startIndex, startIndex + PAGE_SIZE)

----------------------------------------------------------------------------
(* State manager: native GIF states *)

\* sessionId = `native_${userId}_${Date.now()}`
NativeId(userId, t) == <<"native", userId, t>>

createNativeGifState(store, userId, t) ==
    LET sessionId == NativeId(userId, t)
        state == [id |-> sessionId,
                  userId |-> userId,
                  selectedFaceId |-> None,
                  timestamp |-> t]
    IN  MapSet(store, sessionId, state)

getNativeGifState(store, sessionId) ==
    IF sessionId \in DOMAIN store THEN Some(store[sessionId]) ELSE None

\* Returns a boolean and does not read the record back.
updateNativeGifState(store, sessionId, updates, t, fault) ==
    IF sessionId \notin DOMAIN store
    THEN [store |-> store, success |-> FALSE]
    ELSE [store |-> StoreAfterWrite(store, sessionId,
                        AssignUpdates(store[sessionId], updates, t), fault),
          success |-> TRUE]

deleteNativeGifState(store, sessionId) == MapDelete(store, sessionId)

----------------------------------------------------------------------------
(* State manager: expiry *)

ExpiredSearch(state, t) == t - state.timestamp > STATE_TIMEOUT

\* an expiry test that already removes a session at the age of its timeout
ExpiredNativeGifInclusive(state, t) == t - state.timestamp >= NATIVE_GIF_TIMEOUT

ExpiredNativeGif(state, t) == t - state.timestamp > NATIVE_GIF_TIMEOUT

SweepSearches(store, t) ==
    [id \in {i \in DOMAIN store : ~ExpiredSearch(store[i], t)} |-> store[id]]

SweepNativeGifs(store, t) ==
    [id \in {i \in DOMAIN store : ~ExpiredNativeGif(store[i], t)} |-> store[id]]

----------------------------------------------------------------------------
(* Saved faces (utils/faceStorage.ts) *)

\* faceId = `face_${userId}_${Date.now()}`
FaceId(userId, t) == <<"face", userId, t>>

getUserFaces(table, userId) == {f \in DOMAIN table : table[f].user_id = userId}

\* SELECT * FROM saved_faces WHERE id = ? AND user_id = ?
getFaceById(table, faceId, userId) ==
    IF faceId \in DOMAIN table /\ table[faceId].user_id = userId
    THEN Some(table[faceId]) ELSE None

\* UPDATE saved_faces SET usage_count = usage_count + 1 WHERE id = ? AND user_id = ?
incrementFaceUsage(table, faceId, userId) ==
    [f \in DOMAIN table |->
        IF f = faceId /\ table[f].user_id = userId
        THEN [table[f] EXCEPT !.usage_count = @ + 1]
        ELSE table[f]]

canSaveMoreFaces(table, userId) ==
    Cardinality(getUserFaces(table, userId)) < MAX_FACES_PER_USER

\* The table after saveFace, and whether a row was inserted.  Inserting a
\* face id that is already in the table violates the primary key.
saveFace(table, userId, t) ==
    IF Cardinality(getUserFaces(table, userId)) >= MAX_FACES_PER_USER
    THEN [table |-> table, saved |-> FALSE]
    ELSE IF FaceId(userId, t) \in DOMAIN table
    THEN [table |-> table, saved |-> FALSE]
    ELSE [table |-> MapSet(table, FaceId(userId, t),
                           [user_id |-> userId, usage_count |-> 0]),
          saved |-> TRUE]

----------------------------------------------------------------------------
(* Presentation builders *)

\* Rows of buttons; a button is its customId split at the delimiter.
\* a presentation that always has the row of saved faces
buildFaceSelectionUIAlways(faces, searchId) ==
    << {<<"face_select", searchId, f>> : f \in faces} >>
    \o << {<<"face_upload", searchId>>} >>

buildFaceSelectionUI(faces, searchId) ==
    (IF faces # {} THEN << {<<"face_select", searchId, f>> : f \in faces} >>
     ELSE << >>)
    \o << {<<"face_upload", searchId>>} >>

buildNativeGifFaceSelectionUI(faces, sessionId) ==
    (IF faces # {} THEN << {<<"native_face_select", sessionId, f>> : f \in faces} >>
     ELSE << >>)
    \o << {<<"native_upload_face", sessionId>>} >>

----------------------------------------------------------------------------
(* Collectors and jobs *)

\* channel.createMessageCollector({ filter, time, max })
NewCollector(kind, session, userId, deadline) ==
    [kind |-> kind, session |-> session, userId |-> userId,
     deadline |-> deadline, ended |-> FALSE, collected |-> FALSE,
     accepted |-> 0]

\* a collect handler that neither sets its flag nor stops the collector
AcceptAndGoOn(col) == [col EXCEPT !.accepted = @ + 1]

\* waitForFaceUpload: `collected = true; collector.stop()`, then the job
\* is started.
AcceptAndStop(col) ==
    [col EXCEPT !.collected = TRUE, !.ended = TRUE, !.accepted = @ + 1]

\* A collector created with max: 1 ends with the first message it collects.
AcceptMaxOne(col) ==
    [col EXCEPT !.collected = TRUE, !.ended = TRUE, !.accepted = @ + 1]

OpenCollector(kind, session, userId, deadline) ==
    MapSet(collectors, Cardinality(DOMAIN collectors) + 1,
           NewCollector(kind, session, userId, deadline))

CanOpenCollector == Cardinality(DOMAIN collectors) < MaxCollectors

\* A swap job in flight (processFaceSwap*, processNativeGifFaceSwap) or a
\* face being saved; pc is the await it is suspended at.
NewFlow(kind, session, userId, pc, faceId) ==
    [kind |-> kind, session |-> session, userId |-> userId, pc |-> pc,
     faceId |-> faceId, attempts |-> 0]

StartFlow(kind, session, userId, pc, faceId) ==
    MapSet(flows, flowCount + 1, NewFlow(kind, session, userId, pc, faceId))

CanStartFlow == flowCount < MaxFlows

----------------------------------------------------------------------------
(* Rate limiter.  A row of rate_limits holds the JSON text of an array of
   Date.now() values; JSON.stringify followed by JSON.parse gives back the
   same array of integers, and a missing row reads as the empty array. *)

Minute == 60 * 1000

\* RATE_LIMITS[actionType]
RATE_LIMITS(actionType) ==
    IF actionType = "faceswap"
    THEN [maxActions |-> 5, timeWindow |-> 60 * Minute]
    ELSE [maxActions |-> 10, timeWindow |-> 60 * Minute]

BURST_LIMIT == [maxActions |-> 3, timeWindow |-> 10 * Minute]

\* recordAction keeps timestamps younger than this
RETENTION == 24 * 60 * Minute

\* The timestamps stored for (userId, actionType)
StoredTimestamps(table, userId, actionType) ==
    IF <<userId, actionType>> \in DOMAIN table
    THEN table[<<userId, actionType>>]
    ELSE << >>

\* timestamps.filter((ts) => ts > windowStart)
Younger(timestamps, windowStart) ==
    SelectSeq(timestamps, LAMBDA ts : ts > windowStart)

\* Math.min(...timestamps) of a non-empty array
Oldest(timestamps) ==
    CHOOSE ts \in {timestamps[k] : k \in 1..Len(timestamps)} :
        \A k \in 1..Len(timestamps) : ts <= timestamps[k]

\* The wait rounded down to whole minutes
WaitMinutesFloor(oldest, timeWindow, t) == (oldest + timeWindow - t) \div Minute

\* Math.ceil((oldest + timeWindow - now) / 1000 / 60)
WaitMinutes(oldest, timeWindow, t) == Ceil(oldest + timeWindow - t, Minute)

\* checkRateLimit without the burst window
checkRateLimitNoBurst(table, userId, actionType, t) ==
    LET config == RATE_LIMITS(actionType)
        recentTimestamps == Younger(StoredTimestamps(table, userId, actionType),
                                    t - config.timeWindow)
    IN  IF Len(recentTimestamps) >= config.maxActions
        THEN Some([msg |-> "Rate limit exceeded",
                   wait |-> WaitMinutes(Oldest(recentTimestamps),
                                        config.timeWindow, t)])
        ELSE None

\* checkRateLimit that applies the burst window to every action kind
checkRateLimitBurstForAll(table, userId, actionType, t) ==
    LET config == RATE_LIMITS(actionType)
        recentTimestamps == Younger(StoredTimestamps(table, userId, actionType),
                                    t - config.timeWindow)
        burstTimestamps == Younger(recentTimestamps, t - BURST_LIMIT.timeWindow)
    IN  IF Len(recentTimestamps) >= config.maxActions
        THEN Some([msg |-> "Rate limit exceeded",
                   wait |-> WaitMinutes(Oldest(recentTimestamps),
                                        config.timeWindow, t)])
        ELSE IF Len(burstTimestamps) >= BURST_LIMIT.maxActions
        THEN Some([msg |-> "Too many requests",
                   wait |-> WaitMinutes(Oldest(burstTimestamps),
                                        BURST_LIMIT.timeWindow, t)])
        ELSE None

\* None when the action is allowed, else the denial: which limit was hit and
\* the minutes to wait that the message names.
checkRateLimit(table, userId, actionType, t) ==
    LET config == RATE_LIMITS(actionType)
        timestamps == StoredTimestamps(table, userId, actionType)
        recentTimestamps == Younger(timestamps, t - config.timeWindow)
        burstTimestamps == Younger(recentTimestamps, t - BURST_LIMIT.timeWindow)
    IN  IF Len(recentTimestamps) >= config.maxActions
        THEN Some([msg |-> "Rate limit exceeded",
                   wait |-> WaitMinutes(Oldest(recentTimestamps),
                                        config.timeWindow, t)])
        ELSE IF actionType = "faceswap"
                  /\ Len(burstTimestamps) >= BURST_LIMIT.maxActions
        THEN Some([msg |-> "Too many requests",
                   wait |-> WaitMinutes(Oldest(burstTimestamps),
                                        BURST_LIMIT.timeWindow, t)])
        ELSE None

\* recordAction that never drops a timestamp
recordActionNoPrune(table, userId, actionType, t) ==
    MapSet(table, <<userId, actionType>>,
           Append(StoredTimestamps(table, userId, actionType), t))

\* The table after recordAction(userId, actionType) at time t
recordAction(table, userId, actionType, t) ==
    MapSet(table, <<userId, actionType>>,
           Younger(Append(StoredTimestamps(table, userId, actionType), t),
                   t - RETENTION))

\* recordAction of the asynchronous rate limiter, up to the answer of
\* `await db.rateLimit.findUnique`: the call holds the row it has read.
recordActionFindUnique(u, a) ==
    /\ flowCount < MaxRecordCalls
    /\ flows' = MapSet(flows, flowCount + 1,
                       [kind |-> "record", session |-> a, userId |-> u,
                        pc |-> "upsert", faceId |-> None, attempts |-> 0,
                        timestamps |-> StoredTimestamps(rateLimits, u, a)])
    /\ flowCount' = flowCount + 1
    /\ out' = NoOut
    /\ UNCHANGED <<now, spawned, processedMessages, rateLimits, activeSearches,
                   nativeGifStates, savedFaces, collectors, usedInteractions,
                   issued, sessionLog>>

\* The rest of that call: Date.now() is pushed to the array that was read,
\* the array is pruned and `db.rateLimit.upsert` writes it as the row.
recordActionUpsert(f) ==
    LET call == flows[f]
    IN  /\ call.kind = "record"
        /\ call.pc = "upsert"
        /\ rateLimits' = MapSet(rateLimits, <<call.userId, call.session>>,
                                Younger(Append(call.timestamps, now),
                                        now - RETENTION))
        /\ flows' = MapDelete(flows, f)
        /\ out' = [action |-> "recordAction", user |-> call.userId,
                   id |-> Some(call.session), msg |-> "none", data |-> None]
        /\ UNCHANGED <<now, spawned, processedMessages, activeSearches,
                       nativeGifStates, savedFaces, collectors, flowCount,
                       usedInteractions, issued, sessionLog>>

----------------------------------------------------------------------------
(* /gifsearch *)

\* searchId = `${interaction.id}_${Date.now()}`
SearchId(interactionId, t) == <<interactionId, t>>

\* The user is told that a limit was hit and how many minutes to wait.
RateLimited(action, user, denial) ==
    [action |-> action, user |-> user, id |-> None, msg |-> denial[1].msg,
     data |-> Some(denial[1].wait)]

\* The command passes the rate limit, records the action and asks Tenor,
\* which answers with n GIFs; with none the command ends without a session.
handleGifSearchCommand(u, i, n) ==
    LET rateLimitError == checkRateLimit(rateLimits, u, "gifsearch", now)
    IN  /\ i \notin usedInteractions
        /\ usedInteractions' = usedInteractions \cup {i}
        /\ IF rateLimitError # None
           THEN /\ out' = RateLimited("gifsearch", u, rateLimitError)
                /\ UNCHANGED <<rateLimits, activeSearches, issued, sessionLog>>
           ELSE IF n = 0
           THEN /\ rateLimits' = recordAction(rateLimits, u, "gifsearch", now)
                /\ out' = Reply("gifsearch", u, SearchId(i, now), "No GIFs found")
                /\ UNCHANGED <<activeSearches, issued, sessionLog>>
           ELSE /\ rateLimits' = recordAction(rateLimits, u, "gifsearch", now)
                /\ activeSearches' = createSearchState(activeSearches,
                        SearchId(i, now), TenorResults(n), u, now)
                /\ issued' = issued \cup {SearchId(i, now)}
                /\ sessionLog' = MapSet(sessionLog, SearchId(i, now), NewLog)
                /\ out' = Reply("gifsearch", u, SearchId(i, now), "Select one below")
        /\ UNCHANGED <<now, spawned, processedMessages, nativeGifStates,
                       savedFaces, collectors, flows, flowCount>>

----------------------------------------------------------------------------
(* Buttons of the search result message *)

handleGifSelection(u, searchId, index) ==
    LET state == getSearchState(activeSearches, searchId)
        currentGifs == getCurrentPageGifs(state[1])
        r == updateSearchState(activeSearches, searchId,
                               [selectedGif |-> Some(currentGifs[index + 1])],
                               now, "none")
        verifiedState == getSearchState(r.store, searchId)
    IN  /\ IF state = None
           THEN /\ out' = Reply("gif_select", u, searchId, "This search has expired")
                /\ UNCHANGED <<activeSearches, sessionLog>>
           ELSE IF u # state[1].userId
           THEN /\ out' = Reply("gif_select", u, searchId, "This is not your search")
                /\ UNCHANGED <<activeSearches, sessionLog>>
           ELSE IF index + 1 > Len(currentGifs)
           THEN /\ out' = Reply("gif_select", u, searchId, "Invalid GIF selection")
                /\ UNCHANGED <<activeSearches, sessionLog>>
           ELSE IF ~r.success
           THEN /\ activeSearches' = r.store
                /\ out' = Reply("gif_select", u, searchId, "Failed to save your selection")
                /\ UNCHANGED sessionLog
           ELSE IF verifiedState = None \/ verifiedState[1].selectedGif = None
           THEN /\ activeSearches' = r.store
                /\ out' = Reply("gif_select", u, searchId, "Failed to save your selection")
                /\ UNCHANGED sessionLog
           ELSE /\ activeSearches' = r.store
                /\ sessionLog' = Enter(sessionLog, searchId, "AWAITING_SELECTION")
                /\ out' = ReplyWith("gif_select", u, searchId, "Choose a face",
                             buildFaceSelectionUI(getUserFaces(savedFaces, u), searchId))
        /\ UNCHANGED <<now, spawned, processedMessages, rateLimits,
                       nativeGifStates, savedFaces, collectors, flows,
                       flowCount, usedInteractions, issued>>

\* newPage without the bounds of Math.min and Math.max
NewPageUnclamped(state, direction) ==
    IF direction = "next"
    THEN state.currentPage + 1
    ELSE state.currentPage - 1

\* newPage that wraps around at both ends
NewPageWrap(state, direction) ==
    IF direction = "next"
    THEN (state.currentPage + 1) % state.totalPages
    ELSE (state.currentPage - 1 + state.totalPages) % state.totalPages

\* index.ts: newPage of handlePageNavigation
NewPage(state, direction) ==
    IF direction = "next"
    THEN Min(state.currentPage + 1, state.totalPages - 1)
    ELSE Max(state.currentPage - 1, 0)

handlePageNavigation(u, searchId, direction) ==
    LET state == getSearchState(activeSearches, searchId)
        action == IF direction = "next" THEN "gif_next" ELSE "gif_prev"
    IN  /\ IF state = None
           THEN /\ out' = Reply(action, u, searchId, "This search has expired")
                /\ UNCHANGED activeSearches
           ELSE IF u # state[1].userId
           THEN /\ out' = Reply(action, u, searchId, "This is not your search")
                /\ UNCHANGED activeSearches
           ELSE LET r == updateSearchState(activeSearches, searchId,
                            [currentPage |-> NewPage(state[1], direction)],
                            now, "none")
                IN  /\ activeSearches' = r.store
                    /\ out' = Reply(action, u, searchId, "Showing page")
        /\ UNCHANGED <<now, spawned, processedMessages, rateLimits,
                       nativeGifStates, savedFaces, collectors, flows,
                       flowCount, usedInteractions, issued, sessionLog>>

\* a cancel that does not look at who pressed the button
handleSearchCancelAnyUser(u, searchId) ==
    LET state == getSearchState(activeSearches, searchId)
    IN  /\ activeSearches' = deleteSearchState(activeSearches, searchId)
        /\ sessionLog' = IF state # None
                         THEN Enter(sessionLog, searchId, "CANCELLED")
                         ELSE sessionLog
        /\ out' = Reply("gif_cancel", u, searchId, "Search cancelled")
        /\ UNCHANGED <<now, spawned, processedMessages, rateLimits,
                       nativeGifStates, savedFaces, collectors, flows,
                       flowCount, usedInteractions, issued>>

handleSearchCancel(u, searchId) ==
    LET state == getSearchState(activeSearches, searchId)
    IN  /\ IF state # None /\ u # state[1].userId
           THEN /\ out' = Reply("gif_cancel", u, searchId, "This is not your search")
                /\ UNCHANGED <<activeSearches, sessionLog>>
           ELSE /\ activeSearches' = deleteSearchState(activeSearches, searchId)
                /\ sessionLog' = IF state # None
                                 THEN Enter(sessionLog, searchId, "CANCELLED")
                                 ELSE sessionLog
                /\ out' = Reply("gif_cancel", u, searchId, "Search cancelled")
        /\ UNCHANGED <<now, spawned, processedMessages, rateLimits,
                       nativeGifStates, savedFaces, collectors, flows,
                       flowCount, usedInteractions, issued>>

\* handleSavedFaceSelection without the test of state.selectedGif
SavedFaceSelectionAnyGif(u, searchId, faceId, asyncStorage) ==
    LET state == getSearchState(activeSearches, searchId)
        face == IF asyncStorage THEN Some("promise")
                ELSE getFaceById(savedFaces, faceId, u)
    IN  /\ IF state = None
           THEN /\ out' = Reply("face_select", u, searchId, "Search session expired")
                /\ UNCHANGED <<savedFaces, flows, flowCount, sessionLog>>
           ELSE IF u # state[1].userId
           THEN /\ out' = Reply("face_select", u, searchId, "This is not your search")
                /\ UNCHANGED <<savedFaces, flows, flowCount, sessionLog>>
           ELSE IF face = None
           THEN /\ out' = Reply("face_select", u, searchId, "Face not found")
                /\ UNCHANGED <<savedFaces, flows, flowCount, sessionLog>>
           ELSE /\ CanStartFlow
                /\ savedFaces' = incrementFaceUsage(savedFaces, faceId, u)
                /\ flows' = StartFlow("saved", searchId, u, "staging", None)
                /\ flowCount' = flowCount + 1
                /\ sessionLog' = Enter(Enter(sessionLog, searchId, "FACE_CHOSEN"),
                                       searchId, "SUBMITTING")
                /\ out' = Reply("face_select", u, searchId, "Processing face swap")
        /\ UNCHANGED <<now, spawned, processedMessages, rateLimits,
                       activeSearches, nativeGifStates, collectors,
                       usedInteractions, issued>>

\* The handler up to processFaceSwapWithSavedFace, which then runs as a job.
\* The handler calls getFaceById without await.  The face storage of
\* faceStorage.ts answers with the row or null; the asynchronous face
\* storage (asyncStorage) answers with a promise, which `!face` never rejects,
\* and the flow goes on with the fields of the promise (undefined).
SavedFaceSelection(u, searchId, faceId, asyncStorage) ==
    LET state == getSearchState(activeSearches, searchId)
        face == IF asyncStorage THEN Some("promise")
                ELSE getFaceById(savedFaces, faceId, u)
    IN  /\ IF state = None
           THEN /\ out' = Reply("face_select", u, searchId, "Search session expired")
                /\ UNCHANGED <<savedFaces, flows, flowCount, sessionLog>>
           ELSE IF state[1].selectedGif = None
           THEN /\ out' = Reply("face_select", u, searchId, "No GIF selected")
                /\ UNCHANGED <<savedFaces, flows, flowCount, sessionLog>>
           ELSE IF u # state[1].userId
           THEN /\ out' = Reply("face_select", u, searchId, "This is not your search")
                /\ UNCHANGED <<savedFaces, flows, flowCount, sessionLog>>
           ELSE IF face = None
           THEN /\ out' = Reply("face_select", u, searchId, "Face not found")
                /\ UNCHANGED <<savedFaces, flows, flowCount, sessionLog>>
           ELSE /\ CanStartFlow
                /\ savedFaces' = incrementFaceUsage(savedFaces, faceId, u)
                /\ flows' = StartFlow("saved", searchId, u, "staging", None)
                /\ flowCount' = flowCount + 1
                /\ sessionLog' = Enter(Enter(sessionLog, searchId, "FACE_CHOSEN"),
                                       searchId, "SUBMITTING")
                /\ out' = Reply("face_select", u, searchId, "Processing face swap")
        /\ UNCHANGED <<now, spawned, processedMessages, rateLimits,
                       activeSearches, nativeGifStates, collectors,
                       usedInteractions, issued>>

handleSavedFaceSelection(u, searchId, faceId) ==
    SavedFaceSelection(u, searchId, faceId, FALSE)

\* The handler with the start of waitForFaceUpload: the collector is opened.
\* The handler while fewer than limit collectors have been opened
FaceUploadPrompt(u, searchId, limit) ==
    LET state == getSearchState(activeSearches, searchId)
    IN  /\ IF state = None \/ (state # None /\ state[1].selectedGif = None)
           THEN /\ out' = Reply("face_upload", u, searchId, "Invalid state")
                /\ UNCHANGED <<collectors, sessionLog>>
           ELSE IF u # state[1].userId
           THEN /\ out' = Reply("face_upload", u, searchId, "This is not your search")
                /\ UNCHANGED <<collectors, sessionLog>>
           ELSE /\ Cardinality(DOMAIN collectors) < limit
                /\ collectors' = OpenCollector("search", Some(searchId), u,
                                               now + UPLOAD_WINDOW)
                /\ sessionLog' = Enter(sessionLog, searchId, "AWAITING_UPLOAD")
                /\ out' = Reply("face_upload", u, searchId, "Please upload your face image")
        /\ UNCHANGED <<now, spawned, processedMessages, rateLimits,
                       activeSearches, nativeGifStates, savedFaces, flows,
                       flowCount, usedInteractions, issued>>

handleFaceUploadPrompt(u, searchId) == FaceUploadPrompt(u, searchId, MaxCollectors)

----------------------------------------------------------------------------
(* Upload collector of the search flow (waitForFaceUpload) *)

\* A message of author a with an attachment of content type ty ("none": no
\* attachment) reaches collector c while it is running.
waitForFaceUploadCollect(c, a, ty) ==
    LET col == collectors[c]
        searchId == col.session[1]
    IN  /\ col.kind = "search"
        /\ ~col.ended
        /\ now < col.deadline
        /\ IF ~(a = col.userId /\ ty # "none")
           THEN \* rejected by the filter
                /\ out' = NoOut
                /\ UNCHANGED <<collectors, flows, flowCount, sessionLog>>
           ELSE IF col.collected
           THEN /\ out' = NoOut
                /\ UNCHANGED <<collectors, flows, flowCount, sessionLog>>
           ELSE IF ty \notin validImageTypes
           THEN /\ out' = Reply("message", a, searchId, "Please upload a valid image")
                /\ UNCHANGED <<collectors, flows, flowCount, sessionLog>>
           ELSE /\ CanStartFlow
                /\ collectors' = [collectors EXCEPT ![c] = AcceptAndStop(@)]
                /\ flows' = StartFlow("upload", searchId, a, "staging", None)
                /\ flowCount' = flowCount + 1
                /\ sessionLog' = Enter(sessionLog, searchId, "SUBMITTING")
                /\ out' = Reply("message", a, searchId, "Downloading files")
        /\ UNCHANGED <<now, spawned, processedMessages, rateLimits,
                       activeSearches, nativeGifStates, savedFaces,
                       usedInteractions, issued>>

\* collector.on("end") when the time of the collector has run out
waitForFaceUploadEnd(c) ==
    LET col == collectors[c]
        searchId == col.session[1]
    IN  /\ col.kind = "search"
        /\ ~col.ended
        /\ now >= col.deadline
        /\ collectors' = [collectors EXCEPT ![c].ended = TRUE]
        /\ IF ~col.collected
           THEN /\ out' = Reply("timeout", col.userId, searchId, "Timeout")
                /\ activeSearches' = deleteSearchState(activeSearches, searchId)
                /\ sessionLog' = IF searchId \in DOMAIN activeSearches
                                 THEN Enter(sessionLog, searchId, "EXPIRED")
                                 ELSE sessionLog
           ELSE /\ out' = NoOut
                /\ UNCHANGED <<activeSearches, sessionLog>>
        /\ UNCHANGED <<now, spawned, processedMessages, rateLimits,
                       nativeGifStates, savedFaces, flows, flowCount,
                       usedInteractions, issued>>

----------------------------------------------------------------------------
(* Swap jobs.  A job first stages its assets and creates the remote job
   ("staging"), then polls it ("polling") every five seconds; attempts is
   the loop counter of swapFaces / swapFacesInVideo.  ok tells whether the
   awaited remote calls of the step succeed; a reply about a job carries the
   number of status requests made for it. *)

\* maxAttempts of swapFaces (image jobs) and of swapFacesInVideo
maxAttempts(kind) == IF kind = "image" THEN 60 ELSE 120

DeleteSession(kind, session) ==
    IF kind \in {"saved", "upload"}
    THEN /\ activeSearches' = deleteSearchState(activeSearches, session)
         /\ UNCHANGED nativeGifStates
    ELSE IF kind \in {"nativeSaved", "nativeUpload"}
    THEN /\ nativeGifStates' = deleteNativeGifState(nativeGifStates, session)
         /\ UNCHANGED activeSearches
    ELSE \* a slash command has no session
         UNCHANGED <<activeSearches, nativeGifStates>>

\* incrementFaceUsage after processNativeGifFaceSwap has returned
UsageAfterJob(job) ==
    IF job.kind = "nativeSaved"
    THEN incrementFaceUsage(savedFaces, job.faceId[1], job.userId)
    ELSE savedFaces

SwapJobStep(f, ok) ==
    LET job == flows[f]
    IN  /\ job.pc \in {"staging", "polling"}
        /\ IF job.pc = "staging" /\ ok
           THEN \* assets staged, faceSwap.create returned a job id
                /\ flows' = [flows EXCEPT ![f].pc = "polling"]
                /\ sessionLog' = Enter(JobCreated(sessionLog, job.session),
                                       job.session, "POLLING")
                /\ out' = NoOut
                /\ UNCHANGED <<activeSearches, nativeGifStates, savedFaces>>
           ELSE IF job.pc = "polling" /\ ok
           THEN \* complete: result fetched, history written, result sent
                /\ flows' = MapDelete(flows, f)
                /\ DeleteSession(job.kind, job.session)
                /\ savedFaces' = UsageAfterJob(job)
                /\ sessionLog' = Enter(SendResult(sessionLog, job.kind,
                                                  job.session),
                                       job.session, "DELIVERED")
                /\ out' = ReplyWith("job", job.userId, job.session,
                                    "Face swap complete", job.attempts + 1)
           ELSE \* a call threw or the status was "error": the catch block
                /\ flows' = MapDelete(flows, f)
                /\ DeleteSession(job.kind, job.session)
                /\ savedFaces' = UsageAfterJob(job)
                /\ sessionLog' = Enter(sessionLog, job.session, "FAILED")
                /\ out' = ReplyWith("job", job.userId, job.session,
                                    "Face swap failed",
                                    IF job.pc = "polling" THEN job.attempts + 1
                                    ELSE 0)
        /\ UNCHANGED <<now, spawned, processedMessages, rateLimits, collectors,
                       flowCount, usedInteractions, issued>>

\* A polling loop that asks once more after the ceiling
PollPendingOneMore(f) ==
    LET job == flows[f]
    IN  /\ job.pc = "polling"
        /\ job.attempts <= maxAttempts(job.kind)
        /\ IF job.attempts < maxAttempts(job.kind)
           THEN /\ flows' = [flows EXCEPT ![f].attempts = @ + 1]
                /\ out' = NoOut
                /\ UNCHANGED <<activeSearches, nativeGifStates, savedFaces,
                               sessionLog>>
           ELSE /\ flows' = MapDelete(flows, f)
                /\ DeleteSession(job.kind, job.session)
                /\ savedFaces' = UsageAfterJob(job)
                /\ sessionLog' = Enter(sessionLog, job.session, "FAILED")
                /\ out' = ReplyWith("job", job.userId, job.session,
                                    "Face swap failed: timed out",
                                    job.attempts + 1)
        /\ UNCHANGED <<now, spawned, processedMessages, rateLimits, collectors,
                       flowCount, usedInteractions, issued>>

\* The status request of a polling job is answered "pending": attempts++,
\* and when the loop ends the function throws its timeout error, which the
\* catch block of the caller reports.
PollPending(f) ==
    LET job == flows[f]
    IN  /\ job.pc = "polling"
        /\ job.attempts < maxAttempts(job.kind)
        /\ IF job.attempts + 1 < maxAttempts(job.kind)
           THEN /\ flows' = [flows EXCEPT ![f].attempts = @ + 1]
                /\ out' = NoOut
                /\ UNCHANGED <<activeSearches, nativeGifStates, savedFaces,
                               sessionLog>>
           ELSE /\ flows' = MapDelete(flows, f)
                /\ DeleteSession(job.kind, job.session)
                /\ savedFaces' = UsageAfterJob(job)
                /\ sessionLog' = Enter(sessionLog, job.session, "FAILED")
                /\ out' = ReplyWith("job", job.userId, job.session,
                                    "Face swap failed: timed out",
                                    job.attempts + 1)
        /\ UNCHANGED <<now, spawned, processedMessages, rateLimits, collectors,
                       flowCount, usedInteractions, issued>>

\* The status request of a polling job throws (the request itself fails):
\* nothing in the loop catches it, the catch around the whole function
\* rethrows it, and the catch block of the caller reports it.
PollThrows(f) ==
    LET job == flows[f]
    IN  /\ job.pc = "polling"
        /\ job.attempts < maxAttempts(job.kind)
        /\ flows' = MapDelete(flows, f)
        /\ DeleteSession(job.kind, job.session)
        /\ savedFaces' = UsageAfterJob(job)
        /\ sessionLog' = Enter(sessionLog, job.session, "FAILED")
        /\ out' = ReplyWith("job", job.userId, job.session,
                            "Face swap failed: request error", job.attempts + 1)
        /\ UNCHANGED <<now, spawned, processedMessages, rateLimits, collectors,
                       flowCount, usedInteractions, issued>>

processFaceSwapWithSavedFace(f, ok) ==
    /\ flows[f].kind = "saved"
    /\ SwapJobStep(f, ok)

processFaceSwap(f, ok) ==
    /\ flows[f].kind = "upload"
    /\ SwapJobStep(f, ok)

processNativeGifFaceSwap(f, ok) ==
    /\ flows[f].kind \in {"nativeSaved", "nativeUpload"}
    /\ SwapJobStep(f, ok)

----------------------------------------------------------------------------
(* Native GIF flow: context menu command and its buttons *)

\* "Face Swap This GIF" on a message; hasGif is the answer of detectGif.
\* Two sessions of one user are created at different values of Date.now().
\* ch is the kind of channel the command is used in (the commands are
\* registered globally, so they are offered in the direct messages too).
\* Sessions are created while fewer than limit ids have been issued.
ContextCommand(u, hasGif, ch, limit) ==
    LET sessionId == NativeId(u, now)
    IN  /\ IF ~hasGif
           THEN /\ out' = Reply("context", u, sessionId, "No GIF in this message")
                /\ UNCHANGED <<nativeGifStates, issued, sessionLog>>
           ELSE /\ Cardinality({s \in issued : Len(s) = 3}) < limit
                /\ nativeGifStates' = createNativeGifState(nativeGifStates, u, now)
                /\ issued' = issued \cup {sessionId}
                /\ sessionLog' = Enter(MapSet(sessionLog, sessionId,
                                              NewLogIn(ch, ch)),
                                       sessionId, "AWAITING_SELECTION")
                /\ out' = ReplyWith("context", u, sessionId, "Choose a face",
                             buildNativeGifFaceSelectionUI(
                                 getUserFaces(savedFaces, u), sessionId))
        /\ UNCHANGED <<now, spawned, processedMessages, rateLimits,
                       activeSearches, savedFaces, collectors, flows,
                       flowCount, usedInteractions>>

\* The command of a user who has not used it earlier in the same millisecond
FaceSwapContextCommand(u, hasGif, ch) ==
    /\ hasGif => NativeId(u, now) \notin issued
    /\ ContextCommand(u, hasGif, ch, MaxSessions)

handleFaceSwapContextCommand(u, hasGif) ==
    FaceSwapContextCommand(u, hasGif, "guild")

handleNativeGifSwapButton(u, sessionId) ==
    LET state == getNativeGifState(nativeGifStates, sessionId)
    IN  /\ IF state = None
           THEN /\ out' = Reply("native_gif_swap", u, sessionId, "Session expired")
                /\ UNCHANGED sessionLog
           ELSE IF state[1].userId # u
           THEN /\ out' = Reply("native_gif_swap", u, sessionId,
                                "You can only swap your own GIF")
                /\ UNCHANGED sessionLog
           ELSE /\ sessionLog' = Enter(sessionLog, sessionId, "AWAITING_SELECTION")
                /\ out' = ReplyWith("native_gif_swap", u, sessionId, "Choose a face",
                             buildNativeGifFaceSelectionUI(
                                 getUserFaces(savedFaces, u), sessionId))
        /\ UNCHANGED <<now, spawned, processedMessages, rateLimits,
                       activeSearches, nativeGifStates, savedFaces, collectors,
                       flows, flowCount, usedInteractions, issued>>

\* The handler up to `await getUserFaces(userId)`.
handleNativeGifFaceSelect(u, sessionId, faceId) ==
    LET state == getNativeGifState(nativeGifStates, sessionId)
    IN  /\ IF state = None
           THEN /\ out' = Reply("native_face_select", u, sessionId, "Session expired")
                /\ UNCHANGED <<flows, flowCount>>
           ELSE /\ CanStartFlow
                /\ flows' = StartFlow("nativeSaved", sessionId, u, "faces",
                                      Some(faceId))
                /\ flowCount' = flowCount + 1
                /\ out' = NoOut
        /\ UNCHANGED <<now, spawned, processedMessages, rateLimits,
                       activeSearches, nativeGifStates, savedFaces, collectors,
                       usedInteractions, issued, sessionLog>>

\* The handler after getUserFaces has answered: the face is looked up, the
\* state is updated and processNativeGifFaceSwap is started with the state
\* read before the await.
handleNativeGifFaceSelectFaces(f) ==
    LET job == flows[f]
        faces == getUserFaces(savedFaces, job.userId)
        r == updateNativeGifState(nativeGifStates, job.session,
                                  [selectedFaceId |-> job.faceId], now, "none")
    IN  /\ job.kind = "nativeSaved"
        /\ job.pc = "faces"
        /\ IF job.faceId[1] \notin faces
           THEN /\ flows' = MapDelete(flows, f)
                /\ out' = Reply("native_face_select", job.userId, job.session,
                                "Face not found")
                /\ UNCHANGED <<nativeGifStates, sessionLog>>
           ELSE /\ nativeGifStates' = r.store
                /\ flows' = [flows EXCEPT ![f].pc = "staging"]
                /\ sessionLog' = Enter(Enter(sessionLog, job.session, "FACE_CHOSEN"),
                                       job.session, "SUBMITTING")
                /\ out' = Reply("native_face_select", job.userId, job.session,
                                "Processing face swap")
        /\ UNCHANGED <<now, spawned, processedMessages, rateLimits,
                       activeSearches, savedFaces, collectors, flowCount,
                       usedInteractions, issued>>

\* The handler up to the creation of the collector, while fewer than limit
\* collectors have been opened.
NativeGifFaceUpload(u, sessionId, limit) ==
    LET state == getNativeGifState(nativeGifStates, sessionId)
    IN  /\ IF state = None
           THEN /\ out' = Reply("native_upload_face", u, sessionId, "Session expired")
                /\ UNCHANGED <<collectors, sessionLog>>
           ELSE /\ Cardinality(DOMAIN collectors) < limit
                /\ collectors' = OpenCollector("native", Some(sessionId), u,
                                               now + NATIVE_UPLOAD_WINDOW)
                /\ sessionLog' = Enter(sessionLog, sessionId, "AWAITING_UPLOAD")
                /\ out' = Reply("native_upload_face", u, sessionId, "Upload your face")
        /\ UNCHANGED <<now, spawned, processedMessages, rateLimits,
                       activeSearches, nativeGifStates, savedFaces, flows,
                       flowCount, usedInteractions, issued>>

handleNativeGifFaceUpload(u, sessionId) ==
    NativeGifFaceUpload(u, sessionId, MaxCollectors)

\* collector.on("collect") of handleNativeGifFaceUpload; max: 1 ends the
\* collector with the first message that passes the filter.
handleNativeGifFaceUploadCollect(c, a, ty) ==
    LET col == collectors[c]
        sessionId == col.session[1]
    IN  /\ col.kind = "native"
        /\ ~col.ended
        /\ now < col.deadline
        /\ IF ~(a = col.userId /\ ty # "none" /\ StartsWithImage(ty))
           THEN /\ out' = NoOut
                /\ UNCHANGED <<collectors, flows, flowCount, sessionLog>>
           ELSE /\ CanStartFlow
                /\ collectors' = [collectors EXCEPT ![c] = AcceptMaxOne(@)]
                /\ flows' = StartFlow("nativeUpload", sessionId, a, "faceUpload", None)
                /\ flowCount' = flowCount + 1
                /\ sessionLog' = Enter(sessionLog, sessionId, "SUBMITTING")
                /\ out' = NoOut
        /\ UNCHANGED <<now, spawned, processedMessages, rateLimits,
                       activeSearches, nativeGifStates, savedFaces,
                       usedInteractions, issued>>

\* The uploaded face is fetched and staged; on an error the catch block of
\* the collect handler reports it.
\* A collect handler whose catch block tells the user nothing
handleNativeGifFaceUploadStageSilent(f, ok) ==
    LET job == flows[f]
    IN  /\ job.kind = "nativeUpload"
        /\ job.pc = "faceUpload"
        /\ IF ok
           THEN /\ flows' = [flows EXCEPT ![f].pc = "staging"]
                /\ UNCHANGED sessionLog
           ELSE /\ flows' = MapDelete(flows, f)
                /\ sessionLog' = Enter(sessionLog, job.session, "FAILED")
        /\ out' = NoOut
        /\ UNCHANGED <<now, spawned, processedMessages, rateLimits,
                       activeSearches, nativeGifStates, savedFaces, collectors,
                       flowCount, usedInteractions, issued>>

handleNativeGifFaceUploadStage(f, ok) ==
    LET job == flows[f]
    IN  /\ job.kind = "nativeUpload"
        /\ job.pc = "faceUpload"
        /\ IF ok
           THEN /\ flows' = [flows EXCEPT ![f].pc = "staging"]
                /\ out' = NoOut
                /\ UNCHANGED sessionLog
           ELSE /\ flows' = MapDelete(flows, f)
                /\ sessionLog' = Enter(sessionLog, job.session, "FAILED")
                /\ out' = Reply("job", job.userId, job.session, "Error processing image")
        /\ UNCHANGED <<now, spawned, processedMessages, rateLimits,
                       activeSearches, nativeGifStates, savedFaces, collectors,
                       flowCount, usedInteractions, issued>>

\* collector.on("end") when the time of the collector has run out
handleNativeGifFaceUploadEnd(c) ==
    LET col == collectors[c]
        sessionId == col.session[1]
    IN  /\ col.kind = "native"
        /\ ~col.ended
        /\ now >= col.deadline
        /\ collectors' = [collectors EXCEPT ![c].ended = TRUE]
        /\ out' = Reply("timeout", col.userId, sessionId, "Timeout")
        /\ UNCHANGED <<now, spawned, processedMessages, rateLimits,
                       activeSearches, nativeGifStates, savedFaces, flows,
                       flowCount, usedInteractions, issued, sessionLog>>

----------------------------------------------------------------------------
(* /savemyface *)

\* The id a reply about no session carries.
NoSession == <<"none">>

\* /savemyface while fewer than limit collectors have been opened
SaveMyFaceCommand(u, limit) ==
    /\ IF ~canSaveMoreFaces(savedFaces, u)
       THEN /\ out' = Reply("savemyface", u, NoSession, "Limit of saved faces reached")
            /\ UNCHANGED collectors
       ELSE /\ Cardinality(DOMAIN collectors) < limit
            /\ collectors' = OpenCollector("save", None, u, now + UPLOAD_WINDOW)
            /\ out' = Reply("savemyface", u, NoSession, "Upload your face")
    /\ UNCHANGED <<now, spawned, processedMessages, rateLimits, activeSearches,
                   nativeGifStates, savedFaces, flows, flowCount,
                   usedInteractions, issued, sessionLog>>

handleSaveMyFaceCommand(u) == SaveMyFaceCommand(u, MaxCollectors)

handleSaveMyFaceCollect(c, a, ty) ==
    LET col == collectors[c]
    IN  /\ col.kind = "save"
        /\ ~col.ended
        /\ now < col.deadline
        /\ IF ~(a = col.userId /\ ty # "none" /\ StartsWithImage(ty))
           THEN /\ out' = NoOut
                /\ UNCHANGED <<collectors, flows, flowCount>>
           ELSE /\ CanStartFlow
                /\ collectors' = [collectors EXCEPT ![c] = AcceptMaxOne(@)]
                /\ flows' = StartFlow("save", NoSession, a, "saving", None)
                /\ flowCount' = flowCount + 1
                /\ out' = NoOut
        /\ UNCHANGED <<now, spawned, processedMessages, rateLimits,
                       activeSearches, nativeGifStates, savedFaces,
                       usedInteractions, issued, sessionLog>>

\* The image is fetched and staged, then saveFace inserts the row.
handleSaveMyFaceSave(f, ok) ==
    LET job == flows[f]
        r == saveFace(savedFaces, job.userId, now)
    IN  /\ job.kind = "save"
        /\ flows' = MapDelete(flows, f)
        /\ IF ok /\ r.saved
           THEN /\ savedFaces' = r.table
                /\ out' = Reply("savemyface", job.userId, NoSession, "Face saved")
           ELSE /\ out' = Reply("savemyface", job.userId, NoSession, "Error saving face")
                /\ UNCHANGED savedFaces
        /\ UNCHANGED <<now, spawned, processedMessages, rateLimits,
                       activeSearches, nativeGifStates, collectors, flowCount,
                       usedInteractions, issued, sessionLog>>

\* saveFace of the build whose face storage is asynchronous: first the
\* awaited getUserFaces and the comparison with the limit ...
saveFaceGetUserFaces(f) ==
    LET job == flows[f]
    IN  /\ job.kind = "save"
        /\ job.pc = "saving"
        /\ IF Cardinality(getUserFaces(savedFaces, job.userId)) >= MAX_FACES_PER_USER
           THEN /\ flows' = MapDelete(flows, f)
                /\ out' = Reply("savemyface", job.userId, NoSession,
                                "Error saving face")
           ELSE /\ flows' = [flows EXCEPT
                              ![f].pc = "creating",
                              ![f].faceId = Some(FaceId(job.userId, now))]
                /\ out' = NoOut
        /\ UNCHANGED <<now, spawned, processedMessages, rateLimits,
                       activeSearches, nativeGifStates, savedFaces, collectors,
                       flowCount, usedInteractions, issued, sessionLog>>

\* ... then the awaited insert of the id generated before it, which fails on a
\* face id already present.
saveFaceCreate(f) ==
    LET job == flows[f]
        faceId == job.faceId[1]
    IN  /\ job.kind = "save"
        /\ job.pc = "creating"
        /\ flows' = MapDelete(flows, f)
        /\ IF faceId \in DOMAIN savedFaces
           THEN /\ out' = Reply("savemyface", job.userId, NoSession,
                                "Error saving face")
                /\ UNCHANGED savedFaces
           ELSE /\ savedFaces' = MapSet(savedFaces, faceId,
                                        [user_id |-> job.userId, usage_count |-> 0])
                /\ out' = Reply("savemyface", job.userId, NoSession, "Face saved")
        /\ UNCHANGED <<now, spawned, processedMessages, rateLimits,
                       activeSearches, nativeGifStates, collectors, flowCount,
                       usedInteractions, issued, sessionLog>>

handleSaveMyFaceEnd(c) ==
    LET col == collectors[c]
    IN  /\ col.kind = "save"
        /\ ~col.ended
        /\ now >= col.deadline
        /\ collectors' = [collectors EXCEPT ![c].ended = TRUE]
        /\ out' = Reply("timeout", col.userId, NoSession, "Timeout")
        /\ UNCHANGED <<now, spawned, processedMessages, rateLimits,
                       activeSearches, nativeGifStates, savedFaces, flows,
                       flowCount, usedInteractions, issued, sessionLog>>

----------------------------------------------------------------------------
(* /faceswap and /faceswapgif: the rate limit is checked, the reply is
   deferred, and after that await the action is recorded, the attachments
   are validated and the job runs.  These commands keep no session; their
   flow is logged under the id of the interaction. *)

CommandId(i) == <<"command", i>>

\* A command that records the action before it looks at the limit
SwapCommandRecordFirst(kind, u, i) ==
    LET rateLimitError == checkRateLimit(rateLimits, u, "faceswap", now)
    IN  /\ i \notin usedInteractions
        /\ usedInteractions' = usedInteractions \cup {i}
        /\ rateLimits' = recordAction(rateLimits, u, "faceswap", now)
        /\ IF rateLimitError # None
           THEN /\ out' = RateLimited(kind, u, rateLimitError)
                /\ UNCHANGED <<flows, flowCount, sessionLog>>
           ELSE /\ CanStartFlow
                /\ flows' = StartFlow(kind, CommandId(i), u, "deferred", None)
                /\ flowCount' = flowCount + 1
                /\ sessionLog' = MapSet(sessionLog, CommandId(i), NewLog)
                /\ out' = NoOut
        /\ UNCHANGED <<now, spawned, processedMessages, activeSearches,
                       nativeGifStates, savedFaces, collectors, issued>>

\* kind is "image" for /faceswap and "video" for /faceswapgif
SwapCommand(kind, u, i) ==
    LET rateLimitError == checkRateLimit(rateLimits, u, "faceswap", now)
    IN  /\ i \notin usedInteractions
        /\ usedInteractions' = usedInteractions \cup {i}
        /\ IF rateLimitError # None
           THEN /\ out' = RateLimited(kind, u, rateLimitError)
                /\ UNCHANGED <<flows, flowCount, sessionLog>>
           ELSE /\ CanStartFlow
                /\ flows' = StartFlow(kind, CommandId(i), u, "deferred", None)
                /\ flowCount' = flowCount + 1
                /\ sessionLog' = MapSet(sessionLog, CommandId(i), NewLog)
                /\ out' = NoOut
        /\ UNCHANGED <<now, spawned, processedMessages, rateLimits,
                       activeSearches, nativeGifStates, savedFaces, collectors,
                       issued>>

handleFaceSwapCommand(u, i) == SwapCommand("image", u, i)

handleFaceSwapGifCommand(u, i) == SwapCommand("video", u, i)

\* After deferReply: recordAction, then the attachments are validated; valid
\* tells whether both pass (type and size).
SwapCommandDeferred(f, valid) ==
    LET job == flows[f]
    IN  /\ job.kind \in {"image", "video"}
        /\ job.pc = "deferred"
        /\ rateLimits' = recordAction(rateLimits, job.userId, "faceswap", now)
        /\ IF valid
           THEN /\ flows' = [flows EXCEPT ![f].pc = "staging"]
                /\ sessionLog' = Enter(sessionLog, job.session, "SUBMITTING")
                /\ out' = NoOut
           ELSE /\ flows' = MapDelete(flows, f)
                /\ sessionLog' = Enter(sessionLog, job.session, "FAILED")
                /\ out' = Reply(job.kind, job.userId, job.session,
                                "Invalid attachment")
        /\ UNCHANGED <<now, spawned, processedMessages, activeSearches,
                       nativeGifStates, savedFaces, collectors, flowCount,
                       usedInteractions, issued>>

\* swapFaces / swapFacesInVideo called by the command, and what follows it
SwapCommandJob(f, ok) ==
    /\ flows[f].kind \in {"image", "video"}
    /\ SwapJobStep(f, ok)

----------------------------------------------------------------------------
(* GIF messages: the handler of an inbound message offers the swap button
   for a message with a GIF, once per message id it remembers. *)

\* setInterval(() => processedMessages.clear(), PROCESSED_MESSAGE_TTL); the
\* timer runs from the load of the module, so a message may arrive at any
\* distance before its next firing.
clearProcessedMessages ==
    /\ processedMessages' = {}
    /\ out' = NoOut
    /\ UNCHANGED <<now, spawned, rateLimits, activeSearches, nativeGifStates,
                   savedFaces, collectors, flows, flowCount, usedInteractions,
                   issued, sessionLog>>

\* A delivery of the message event of m; hasGif is the answer of detectGif.
\* The button goes to the author's direct messages; when that send throws
\* (dmOk false) it is posted as a reply in the channel of the message.
\* At most MaxSpawned sessions are created from one message.
handleNativeGifMessage(m, hasGif, dmOk) ==
    LET sessionId == NativeId(Author(m), now)
    IN  /\ IF m \in processedMessages \/ ~hasGif
           THEN /\ out' = NoOut
                /\ UNCHANGED <<processedMessages, spawned, nativeGifStates,
                               issued, sessionLog>>
           ELSE /\ sessionId \notin issued
                /\ spawned[m] < MaxSpawned
                /\ processedMessages' = processedMessages \cup {m}
                /\ nativeGifStates' =
                       createNativeGifState(nativeGifStates, Author(m), now)
                /\ issued' = issued \cup {sessionId}
                /\ sessionLog' = MapSet(sessionLog, sessionId,
                       NewLogIn("guild", IF dmOk THEN "dm" ELSE "guild"))
                /\ spawned' = [spawned EXCEPT ![m] = @ + 1]
                /\ out' = ReplyWith("native_gif_message", Author(m), sessionId,
                                    "Want to face swap this GIF?",
                                    << {<<"native_gif_swap", sessionId>>} >>)
        /\ UNCHANGED <<now, rateLimits, activeSearches, savedFaces, collectors,
                       flows, flowCount, usedInteractions>>

----------------------------------------------------------------------------
(* Timers *)

\* setInterval(cleanupExpiredStates, CLEANUP_INTERVAL)
cleanupExpiredStates ==
    /\ activeSearches' = SweepSearches(activeSearches, now)
    /\ nativeGifStates' = SweepNativeGifs(nativeGifStates, now)
    /\ sessionLog' = EnterAll(sessionLog,
            (DOMAIN activeSearches \ DOMAIN activeSearches')
              \cup (DOMAIN nativeGifStates \ DOMAIN nativeGifStates'),
            "EXPIRED")
    /\ out' = NoOut
    /\ UNCHANGED <<now, spawned, processedMessages, rateLimits, savedFaces,
                   collectors, flows, flowCount, usedInteractions, issued>>

\* Time passes, up to limit clock steps.
TickWithin(limit) ==
    /\ now < limit * TickMs
    /\ now' = now + TickMs
    /\ out' = NoOut
    /\ UNCHANGED <<rateLimits, spawned, processedMessages, activeSearches,
                   nativeGifStates, savedFaces, collectors, flows, flowCount,
                   usedInteractions, issued, sessionLog>>

Tick == TickWithin(MaxTicks)

UploadTick == TickWithin(UploadTicks)

----------------------------------------------------------------------------
(* Calls of the update functions of the state manager.  Callers other than
   the handlers above reach the store this way; out is what the call
   returned, with the arguments it was given. *)

Returned(fn, id, updates, result) ==
    [action |-> fn, user |-> "none", id |-> Some(id), msg |-> result,
     data |-> Some(updates)]

\* A search id and a session id no command has created.
UnknownSearchId == SearchId("i0", 0)

UnknownNativeId == NativeId("u0", 0)

\* The updates the callers of updateSearchState pass: a page, a selected
\* GIF, or both.
SearchUpdates ==
    {[currentPage |-> p] : p \in 0..1}
      \cup {[selectedGif |-> Some(g)] : g \in {0}}
      \cup {[currentPage |-> 1, selectedGif |-> Some(PAGE_SIZE)]}

\* The updates the callers of updateNativeGifState pass: a selected face.
NativeUpdates ==
    {[selectedFaceId |-> Some(FaceId(u, 0 - TickMs))] : u \in FaceOwners}

CallUpdateSearchState(searchId, updates, fault) ==
    LET r == updateSearchState(activeSearches, searchId, updates, now, fault)
    IN  /\ activeSearches' = r.store
        /\ out' = Returned("updateSearchState", searchId, updates,
                           IF r.success THEN "success" ELSE r.error)
        /\ UNCHANGED <<now, spawned, processedMessages, rateLimits,
                       nativeGifStates, savedFaces, collectors, flows,
                       flowCount, usedInteractions, issued, sessionLog>>

CallUpdateNativeGifState(sessionId, updates, fault) ==
    LET r == updateNativeGifState(nativeGifStates, sessionId, updates, now, fault)
    IN  /\ nativeGifStates' = r.store
        /\ out' = Returned("updateNativeGifState", sessionId, updates,
                           IF r.success THEN "success" ELSE "false")
        /\ UNCHANGED <<now, spawned, processedMessages, rateLimits,
                       activeSearches, savedFaces, collectors, flows,
                       flowCount, usedInteractions, issued, sessionLog>>

----------------------------------------------------------------------------
(* Specifications *)

\* Faces saved before the run: none, or one face of one user.
InitialFaceTables ==
    {EmptyMap} \cup
    {MapSet(EmptyMap, FaceId(u, 0 - TickMs), [user_id |-> u, usage_count |-> 0]) :
        u \in FaceOwners}

Init ==
    /\ now = 0
    /\ activeSearches = EmptyMap
    /\ nativeGifStates = EmptyMap
    /\ savedFaces \in InitialFaceTables
    /\ collectors = EmptyMap
    /\ flows = EmptyMap
    /\ flowCount = 0
    /\ usedInteractions = {}
    /\ issued = {}
    /\ sessionLog = EmptyMap
    /\ rateLimits = EmptyMap
    /\ processedMessages = {}
    /\ spawned = [m \in Messages |-> 0]
    /\ out = NoOut

SearchSessions == {s \in issued : Len(s) = 2}

NativeSessions == {s \in issued : Len(s) = 3}

\* Indices of the GIF buttons of a page the model presses: first and last.
PressedIndices == {0, PAGE_SIZE - 1}

\* Result counts of the searches of the flow model: none, or two pages.
FlowResultCounts == {0, PAGE_SIZE + 1}

\* The search store alone: create, page, select, cancel, sweep.
NextPaging ==
    \/ \E u \in Users, i \in InteractionIds, n \in 0..MaxResults :
          handleGifSearchCommand(u, i, n)
    \/ \E u \in Users, s \in SearchSessions, index \in PressedIndices :
          handleGifSelection(u, s, index)
    \/ \E u \in Users, s \in SearchSessions, d \in {"next", "prev"} :
          handlePageNavigation(u, s, d)
    \/ \E u \in Users, s \in SearchSessions : handleSearchCancel(u, s)
    \/ cleanupExpiredStates
    \/ Tick

SpecPaging == Init /\ [][NextPaging]_vars

\* The /gifsearch flow with its buttons, upload collector and swap jobs.
NextSearch ==
    \/ \E u \in Users, i \in InteractionIds, n \in FlowResultCounts :
          handleGifSearchCommand(u, i, n)
    \/ \E u \in Users, s \in SearchSessions, index \in PressedIndices :
          handleGifSelection(u, s, index)
    \/ \E u \in Users, s \in SearchSessions, d \in {"next", "prev"} :
          handlePageNavigation(u, s, d)
    \/ \E u \in Users, s \in SearchSessions : handleSearchCancel(u, s)
    \/ \E u \in Users, s \in SearchSessions, f \in DOMAIN savedFaces :
          handleSavedFaceSelection(u, s, f)
    \/ \E u \in Users, s \in SearchSessions : handleFaceUploadPrompt(u, s)
    \/ \E c \in DOMAIN collectors, a \in Users, ty \in ContentTypes :
          waitForFaceUploadCollect(c, a, ty)
    \/ \E c \in DOMAIN collectors : waitForFaceUploadEnd(c)
    \/ \E f \in DOMAIN flows, ok \in BOOLEAN : processFaceSwapWithSavedFace(f, ok)
    \/ \E f \in DOMAIN flows, ok \in BOOLEAN : processFaceSwap(f, ok)
    \/ cleanupExpiredStates
    \/ Tick

SpecSearch == Init /\ [][NextSearch]_vars

\* The "Face Swap This GIF" flow.
NextNative ==
    \/ \E u \in Users, hasGif \in BOOLEAN : handleFaceSwapContextCommand(u, hasGif)
    \/ \E u \in Users, s \in NativeSessions : handleNativeGifSwapButton(u, s)
    \/ \E u \in Users, s \in NativeSessions, f \in DOMAIN savedFaces :
          handleNativeGifFaceSelect(u, s, f)
    \/ \E f \in DOMAIN flows : handleNativeGifFaceSelectFaces(f)
    \/ \E u \in Users, s \in NativeSessions : handleNativeGifFaceUpload(u, s)
    \/ \E c \in DOMAIN collectors, a \in Users, ty \in ContentTypes :
          handleNativeGifFaceUploadCollect(c, a, ty)
    \/ \E f \in DOMAIN flows, ok \in BOOLEAN : handleNativeGifFaceUploadStage(f, ok)
    \/ \E c \in DOMAIN collectors : handleNativeGifFaceUploadEnd(c)
    \/ \E f \in DOMAIN flows, ok \in BOOLEAN : processNativeGifFaceSwap(f, ok)
    \/ cleanupExpiredStates
    \/ Tick

SpecNative == Init /\ [][NextNative]_vars

\* /savemyface
NextSave ==
    \/ \E u \in Users : handleSaveMyFaceCommand(u)
    \/ \E c \in DOMAIN collectors, a \in Users, ty \in ContentTypes :
          handleSaveMyFaceCollect(c, a, ty)
    \/ \E f \in DOMAIN flows, ok \in BOOLEAN : handleSaveMyFaceSave(f, ok)
    \/ \E c \in DOMAIN collectors : handleSaveMyFaceEnd(c)
    \/ Tick

\* The whole bot.
Next == NextSearch \/ NextNative \/ NextSave

Spec == Init /\ [][Next]_vars

\* The state manager: sessions are created, updated, swept.
NextStore ==
    \/ \E u \in Users, i \in InteractionIds, n \in FlowResultCounts :
          handleGifSearchCommand(u, i, n)
    \/ \E u \in Users, hasGif \in BOOLEAN : handleFaceSwapContextCommand(u, hasGif)
    \/ \E s \in SearchSessions \cup {UnknownSearchId}, updates \in SearchUpdates :
          CallUpdateSearchState(s, updates, "none")
    \/ \E s \in NativeSessions \cup {UnknownNativeId}, updates \in NativeUpdates :
          CallUpdateNativeGifState(s, updates, "none")
    \/ cleanupExpiredStates
    \/ Tick

SpecStore == Init /\ [][NextStore]_vars

\* The state manager over a store whose writes may fail.
NextFault ==
    \/ \E u \in Users, i \in InteractionIds, n \in FlowResultCounts :
          handleGifSearchCommand(u, i, n)
    \/ \E u \in Users, hasGif \in BOOLEAN : handleFaceSwapContextCommand(u, hasGif)
    \/ \E s \in SearchSessions \cup {UnknownSearchId}, updates \in SearchUpdates,
          fault \in StoreFaults :
          CallUpdateSearchState(s, updates, fault)
    \/ \E s \in NativeSessions \cup {UnknownNativeId}, updates \in NativeUpdates,
          fault \in StoreFaults :
          CallUpdateNativeGifState(s, updates, fault)

SpecFault == Init /\ [][NextFault]_vars

\* The upload windows of the three flows.
NextUpload ==
    \/ \E u \in Users, i \in InteractionIds, n \in FlowResultCounts :
          handleGifSearchCommand(u, i, n)
    \/ \E u \in Users, s \in SearchSessions, index \in PressedIndices :
          handleGifSelection(u, s, index)
    \/ \E u \in Users, s \in SearchSessions : handleFaceUploadPrompt(u, s)
    \/ \E c \in DOMAIN collectors, a \in Users, ty \in ContentTypes :
          waitForFaceUploadCollect(c, a, ty)
    \/ \E c \in DOMAIN collectors : waitForFaceUploadEnd(c)
    \/ \E f \in DOMAIN flows, ok \in BOOLEAN : processFaceSwap(f, ok)
    \/ \E u \in Users, hasGif \in BOOLEAN : handleFaceSwapContextCommand(u, hasGif)
    \/ \E u \in Users, s \in NativeSessions : handleNativeGifFaceUpload(u, s)
    \/ \E c \in DOMAIN collectors, a \in Users, ty \in ContentTypes :
          handleNativeGifFaceUploadCollect(c, a, ty)
    \/ \E f \in DOMAIN flows, ok \in BOOLEAN : handleNativeGifFaceUploadStage(f, ok)
    \/ \E c \in DOMAIN collectors : handleNativeGifFaceUploadEnd(c)
    \/ \E f \in DOMAIN flows, ok \in BOOLEAN : processNativeGifFaceSwap(f, ok)
    \/ \E u \in Users : handleSaveMyFaceCommand(u)
    \/ \E c \in DOMAIN collectors, a \in Users, ty \in ContentTypes :
          handleSaveMyFaceCollect(c, a, ty)
    \/ \E f \in DOMAIN flows, ok \in BOOLEAN : handleSaveMyFaceSave(f, ok)
    \/ \E c \in DOMAIN collectors : handleSaveMyFaceEnd(c)
    \/ UploadTick

SpecUpload == Init /\ [][NextUpload]_vars

----------------------------------------------------------------------------
(* The rate limiter on its own: checks and records of one user, over a
   rate_limits table that may hold rows written before the start. *)

\* The instants of the rate limiter model, as offsets from the start: around
\* the start, around the end of the burst window and around the end of the
\* hour.
RateTimes ==
    {0, Minute, 2 * Minute, 9 * Minute, 9 * Minute + 1, 10 * Minute,
     11 * Minute, 12 * Minute, 60 * Minute, 61 * Minute}

\* The clock advances to a later instant t.
RateTick(t) ==
    /\ t > now
    /\ now' = t
    /\ out' = [NoOut EXCEPT !.action = "tick"]
    /\ UNCHANGED <<rateLimits, spawned, processedMessages, activeSearches,
                   nativeGifStates, savedFaces, collectors, flows, flowCount,
                   usedInteractions, issued, sessionLog>>

\* out after checkRateLimit(u, a) returned
Checked(u, a, result) ==
    IF result = None
    THEN [action |-> "checkRateLimit", user |-> u, id |-> Some(a),
          msg |-> "allowed", data |-> None]
    ELSE [action |-> "checkRateLimit", user |-> u, id |-> Some(a),
          msg |-> result[1].msg, data |-> Some(result[1].wait)]

CallCheckRateLimit(u, a) ==
    /\ out' = Checked(u, a, checkRateLimit(rateLimits, u, a, now))
    /\ UNCHANGED <<now, spawned, processedMessages, rateLimits, activeSearches,
                   nativeGifStates, savedFaces, collectors, flows, flowCount,
                   usedInteractions, issued, sessionLog>>

\* Rows are recorded up to a length of MaxRecords (face swaps) and
\* MaxSearchRecords (searches).
CallRecordAction(u, a) ==
    /\ Len(StoredTimestamps(rateLimits, u, a))
         < (IF a = "faceswap" THEN MaxRecords ELSE MaxSearchRecords)
    /\ rateLimits' = recordAction(rateLimits, u, a, now)
    /\ out' = [action |-> "recordAction", user |-> u, id |-> Some(a),
               msg |-> "none", data |-> None]
    /\ UNCHANGED <<now, spawned, processedMessages, activeSearches,
                   nativeGifStates, savedFaces, collectors, flows, flowCount,
                   usedInteractions, issued, sessionLog>>

ActionTypes == {"faceswap", "gifsearch"}

\* Rows left by earlier runs: for face swaps none, or a timestamp that
\* leaves the retention period ten minutes after the start followed by one
\* that is half an hour old; for searches nine timestamps one minute old.
InitialRateTables ==
    {MapSet(t, <<"u1", "gifsearch">>, [k \in 1..9 |-> 0 - Minute]) :
        t \in {EmptyMap,
               MapSet(EmptyMap, <<"u1", "faceswap">>,
                      <<10 * Minute - RETENTION, 0 - 30 * Minute>>)}}

InitRate ==
    /\ now = 0
    /\ activeSearches = EmptyMap
    /\ nativeGifStates = EmptyMap
    /\ savedFaces = EmptyMap
    /\ collectors = EmptyMap
    /\ flows = EmptyMap
    /\ flowCount = 0
    /\ usedInteractions = {}
    /\ issued = {}
    /\ sessionLog = EmptyMap
    /\ rateLimits \in InitialRateTables
    /\ processedMessages = {}
    /\ spawned = [m \in Messages |-> 0]
    /\ out = NoOut

NextRate ==
    \/ \E a \in ActionTypes : CallCheckRateLimit("u1", a)
    \/ \E a \in ActionTypes : CallRecordAction("u1", a)
    \/ \E t \in RateTimes : RateTick(t)

SpecRate == InitRate /\ [][NextRate]_vars

----------------------------------------------------------------------------
(* The InteractionCreate listener: a try block around the dispatch to the
   handlers, and a catch block that tells the user. *)

InteractionKinds == {"command", "button", "contextMenu"}

\* try { body } catch { handler }: a block ends "ok" or with "throw"
TryCatch(body, handler) == IF body = "throw" THEN handler ELSE body

\* catch block that sends the error message without a try of its own
InteractionCatchUnguarded(acknowledged, sendThrows) ==
    [method |-> IF acknowledged THEN "followUp" ELSE "reply",
     sent |-> ~sendThrows,
     result |-> IF sendThrows THEN "throw" ELSE "ok"]

\* The catch block of the listener for an interaction that isRepliable():
\* followUp when interaction.replied || interaction.deferred, reply
\* otherwise, each in a try whose catch logs, both inside a try whose catch
\* logs.
InteractionCatch(acknowledged, sendThrows) ==
    LET send == IF sendThrows THEN "throw" ELSE "ok"
        followUp == TryCatch(send, "ok")
        reply == TryCatch(send, "ok")
    IN  [method |-> IF acknowledged THEN "followUp" ELSE "reply",
         sent |-> ~sendThrows,
         result |-> TryCatch(IF acknowledged THEN followUp ELSE reply, "ok")]

\* The listener for an interaction of user u whose handler throws, before
\* or after it acknowledged the interaction; sendThrows tells whether the
\* send of the error message throws as well.
InteractionCreate(u, kind, acknowledged, sendThrows) ==
    LET caught == InteractionCatch(acknowledged, sendThrows)
    IN  /\ out' = [action |-> "InteractionCreate", user |-> u, id |-> Some(kind),
                   msg |-> IF caught.sent THEN "An unexpected error occurred"
                           ELSE "none",
                   data |-> Some([acknowledged |-> acknowledged,
                                  sendThrows |-> sendThrows,
                                  method |-> caught.method,
                                  result |-> TryCatch("throw", caught.result)])]
        /\ UNCHANGED <<now, spawned, processedMessages, rateLimits,
                       activeSearches, nativeGifStates, savedFaces, collectors,
                       flows, flowCount, usedInteractions, issued, sessionLog>>

\* Interactions whose handler throws, between interactions whose handler
\* does not.
NextListener ==
    \/ \E u \in Users, kind \in InteractionKinds, acknowledged \in BOOLEAN,
          sendThrows \in BOOLEAN :
          InteractionCreate(u, kind, acknowledged, sendThrows)
    \/ \E u \in Users, i \in InteractionIds, n \in FlowResultCounts :
          handleGifSearchCommand(u, i, n)
    \/ \E u \in Users, hasGif \in BOOLEAN : handleFaceSwapContextCommand(u, hasGif)
    \/ \E u \in Users, s \in SearchSessions : handleSearchCancel(u, s)

SpecListener == Init /\ [][NextListener]_vars

----------------------------------------------------------------------------
(* Button ids.  A string is a sequence of pieces: the separators "_" and "|"
   and the runs of characters between them (words, snowflakes, decimal
   numbers), none of which holds a separator. *)

\* The template literals `${a}_${b}_${Date.now()}` of the three id builders:
\* the components of the id joined by "_", the number in decimal.
Text(id) ==
    [k \in 1..(2 * Len(id) - 1) |->
        IF k % 2 = 0 THEN "_"
        ELSE IF (k + 1) \div 2 = Len(id) THEN ToString(id[Len(id)])
        ELSE id[(k + 1) \div 2]]

\* String.prototype.split(sep)
RECURSIVE Split(_, _)
Split(s, sep) ==
    IF \A k \in 1..Len(s) : s[k] # sep
    THEN <<s>>
    ELSE LET k == CHOOSE k \in 1..Len(s) :
                      s[k] = sep /\ \A j \in 1..(k - 1) : s[j] # sep
         IN  <<SubSeq(s, 1, k - 1)>> \o Split(SubSeq(s, k + 1, Len(s)), sep)

\* Array.prototype.join(sep)
RECURSIVE Join(_, _)
Join(parts, sep) ==
    IF Len(parts) = 0 THEN << >>
    ELSE IF Len(parts) = 1 THEN parts[1]
    ELSE parts[1] \o <<sep>> \o Join(Tail(parts), sep)

\* String.prototype.includes(piece) for a separator
Includes(s, piece) == \E k \in 1..Len(s) : s[k] = piece

\* String.prototype.startsWith(prefix)
StartsWith(s, prefix) ==
    Len(s) >= Len(prefix) /\ SubSeq(s, 1, Len(prefix)) = prefix

\* String.prototype.indexOf(pattern), counted in pieces; -1 when absent
IndexOf(s, pattern) ==
    LET at == {k \in 0..(Len(s) - Len(pattern)) :
                  SubSeq(s, k + 1, k + Len(pattern)) = pattern}
    IN  IF at = {} THEN 0 - 1
        ELSE CHOOSE k \in at : \A j \in at : k <= j

\* parseInt of a piece: the number whose decimal text it is, or "NaN"
ParseInt(s) ==
    IF Len(s) = 1 /\ \E n \in 0..MaxResults : ToString(n) = s[1]
    THEN CHOOSE n \in 0..MaxResults : ToString(n) = s[1]
    ELSE "NaN"

\* Element n (from 0) of a destructured array; the empty string stands for
\* undefined, which the handlers treat alike (`x || null`, `!x`).
Element(parts, n) == IF n < Len(parts) THEN parts[n + 1] ELSE << >>

ButtonKinds ==
    {"gif_select", "gif_next", "gif_prev", "gif_cancel", "face_select",
     "face_select_legacy", "face_upload", "face_upload_legacy",
     "native_gif_swap", "native_face_select", "native_upload_face"}

\* The customId of a button of the given kind, as the builders of the
\* components write it (the legacy kinds: as earlier versions wrote it).
CustomId(kind, sessionId, faceId, index) ==
    CASE kind = "gif_select" ->
           <<"gif", "_", "select", "_">> \o sessionId \o <<"_", ToString(index)>>
      [] kind = "gif_next" -> <<"gif", "_", "next", "_">> \o sessionId
      [] kind = "gif_prev" -> <<"gif", "_", "prev", "_">> \o sessionId
      [] kind = "gif_cancel" -> <<"gif", "_", "cancel", "_">> \o sessionId
      [] kind = "face_select" ->
           <<"face", "_", "select", "|">> \o sessionId \o <<"|">> \o faceId
      [] kind = "face_select_legacy" ->
           <<"face", "_", "select", "_">> \o sessionId \o <<"_">> \o faceId
      [] kind = "face_upload" -> <<"face", "_", "upload", "|">> \o sessionId
      [] kind = "face_upload_legacy" -> <<"face", "_", "upload", "_">> \o sessionId
      [] kind = "native_gif_swap" ->
           <<"native", "_", "gif", "_", "swap", "|">> \o sessionId
      [] kind = "native_face_select" ->
           <<"native", "_", "face", "_", "select", "|">> \o sessionId
               \o <<"|">> \o faceId
      [] kind = "native_upload_face" ->
           <<"native", "_", "upload", "_", "face", "|">> \o sessionId

Parsed(handler, sessionId, faceId, index) ==
    [handler |-> handler, sessionId |-> sessionId, faceId |-> faceId,
     index |-> index]

\* parseSearchAndFaceId that cuts the legacy id at its last "_"
parseSearchAndFaceIdLastUnderscore(customId) ==
    IF Includes(customId, "|")
    THEN [searchId |-> Element(Split(customId, "|"), 1),
          faceId |-> Element(Split(customId, "|"), 2)]
    ELSE LET parts == Split(customId, "_")
         IN  [searchId |-> Join(Slice(parts, 2, Len(parts) - 1), "_"),
              faceId |-> parts[Len(parts)]]

parseSearchAndFaceId(customId) ==
    LET legacyPrefix == <<"face", "_", "select", "_">>
        payload == SubSeq(customId, Len(legacyPrefix) + 1, Len(customId))
        faceMarkerIndex == IndexOf(payload, <<"_", "face", "_">>)
    IN  IF Includes(customId, "|")
        THEN [searchId |-> Element(Split(customId, "|"), 1),
              faceId |-> Element(Split(customId, "|"), 2)]
        ELSE IF StartsWith(customId, legacyPrefix) /\ faceMarkerIndex # 0 - 1
        THEN [searchId |-> SubSeq(payload, 1, faceMarkerIndex),
              faceId |-> SubSeq(payload, faceMarkerIndex + 2, Len(payload))]
        ELSE [searchId |-> << >>, faceId |-> << >>]

\* handleButtonInteraction: the handler chosen by the prefix of the customId,
\* with the ids that handler reads from the customId.
handleButtonInteraction(customId) ==
    LET parts == Split(customId, "_")
        pipes == Split(customId, "|")
    IN  IF StartsWith(customId, <<"gif", "_", "select", "_">>)
        THEN Parsed("handleGifSelection",
                    Join(Slice(parts, 2, Len(parts) - 1), "_"), << >>,
                    ParseInt(parts[Len(parts)]))
        ELSE IF \/ StartsWith(customId, <<"face", "_", "select", "_">>)
                \/ StartsWith(customId, <<"face", "_", "select", "|">>)
        THEN Parsed("handleSavedFaceSelection",
                    parseSearchAndFaceId(customId).searchId,
                    parseSearchAndFaceId(customId).faceId, "none")
        ELSE IF \/ StartsWith(customId, <<"face", "_", "upload", "_">>)
                \/ StartsWith(customId, <<"face", "_", "upload", "|">>)
        THEN Parsed("handleFaceUploadPrompt",
                    IF Includes(customId, "|") THEN Element(pipes, 1)
                    ELSE Join(Slice(parts, 2, Len(parts)), "_"),
                    << >>, "none")
        ELSE IF StartsWith(customId, <<"gif", "_", "next", "_">>)
        THEN Parsed("handlePageNavigation",
                    Join(Slice(parts, 2, Len(parts)), "_"), << >>, "none")
        ELSE IF StartsWith(customId, <<"gif", "_", "prev", "_">>)
        THEN Parsed("handlePageNavigation",
                    Join(Slice(parts, 2, Len(parts)), "_"), << >>, "none")
        ELSE IF StartsWith(customId, <<"gif", "_", "cancel", "_">>)
        THEN Parsed("handleSearchCancel",
                    Join(Slice(parts, 2, Len(parts)), "_"), << >>, "none")
        ELSE IF StartsWith(customId, <<"native", "_", "gif", "_", "swap", "|">>)
        THEN Parsed("handleNativeGifSwapButton", Element(pipes, 1), << >>, "none")
        ELSE IF StartsWith(customId,
                           <<"native", "_", "face", "_", "select", "|">>)
        THEN Parsed("handleNativeGifFaceSelect", Element(pipes, 1),
                    Element(pipes, 2), "none")
        ELSE IF StartsWith(customId,
                           <<"native", "_", "upload", "_", "face", "|">>)
        THEN Parsed("handleNativeGifFaceUpload", Element(pipes, 1), << >>, "none")
        ELSE Parsed("none", << >>, << >>, "none")

\* The instants at which the ids of the model are made
IdTimes == {k * TickMs : k \in 0..MaxTicks}

\* The session ids a button of the kind is built with
ButtonSessions(kind) ==
    IF kind \in {"native_gif_swap", "native_face_select", "native_upload_face"}
    THEN {NativeId(u, t) : u \in Users, t \in IdTimes}
    ELSE {SearchId(i, t) : i \in InteractionIds, t \in IdTimes}

\* The button of the given kind is built for a session (and a face and an
\* index, for the kinds that carry them) and its press is dispatched.
PressButton(kind, sessionId, faceId, index) ==
    LET hasFace == kind \in {"face_select", "face_select_legacy",
                             "native_face_select"}
        hasIndex == kind = "gif_select"
        customId == CustomId(kind, Text(sessionId), Text(faceId), index)
    IN  /\ out' = [action |-> "button", user |-> "none", id |-> Some(sessionId),
                   msg |-> kind,
                   data |-> Some([built |-> Parsed(
                                      handleButtonInteraction(customId).handler,
                                      Text(sessionId),
                                      IF hasFace THEN Text(faceId) ELSE << >>,
                                      IF hasIndex THEN index ELSE "none"),
                                  parsed |-> handleButtonInteraction(customId)])]
        /\ UNCHANGED <<now, spawned, processedMessages, rateLimits,
                       activeSearches, nativeGifStates, savedFaces, collectors,
                       flows, flowCount, usedInteractions, issued, sessionLog>>

\* The faces and the indices a button of the kind is built with (one
\* value for the kinds that carry none)
ButtonFaces(kind) ==
    IF kind \in {"face_select", "face_select_legacy", "native_face_select"}
    THEN {FaceId(u, t) : u \in Users, t \in IdTimes}
    ELSE {FaceId("u1", 0)}

ButtonIndices(kind) == IF kind = "gif_select" THEN 0..(PAGE_SIZE - 1) ELSE {0}

NextButtons ==
    \E kind \in ButtonKinds :
        \E s \in ButtonSessions(kind), f \in ButtonFaces(kind),
           index \in ButtonIndices(kind) :
            PressButton(kind, s, f, index)

SpecButtons == Init /\ [][NextButtons]_vars

\* Calls of the asynchronous recordAction that overlap.
NextRecord ==
    \/ \E u \in Users, a \in ActionTypes : recordActionFindUnique(u, a)
    \/ \E f \in DOMAIN flows : recordActionUpsert(f)
    \/ Tick

SpecRecord == Init /\ [][NextRecord]_vars

----------------------------------------------------------------------------
(* The slash commands that swap faces, with a provider that may answer
   "pending" to a status request. *)

NextPoll ==
    \/ \E u \in Users, i \in InteractionIds : handleFaceSwapCommand(u, i)
    \/ \E u \in Users, i \in InteractionIds : handleFaceSwapGifCommand(u, i)
    \/ \E f \in DOMAIN flows, valid \in BOOLEAN : SwapCommandDeferred(f, valid)
    \/ \E f \in DOMAIN flows, ok \in BOOLEAN : SwapCommandJob(f, ok)
    \/ \E f \in DOMAIN flows : PollPending(f)
    \/ \E f \in DOMAIN flows : PollThrows(f)
    \/ Tick

SpecPoll == Init /\ [][NextPoll]_vars

----------------------------------------------------------------------------
(* Inbound GIF messages, delivered once or again: one millisecond, one
   second, a minute or six minutes after the start.  The button reaches
   the author's direct messages. *)

MessageTimes == {1, 1000, 61 * 1000, 6 * Minute}

NextMessage ==
    \/ \E m \in Messages, hasGif \in BOOLEAN :
          handleNativeGifMessage(m, hasGif, TRUE)
    \/ \E u \in Users, s \in NativeSessions : handleNativeGifSwapButton(u, s)
    \/ clearProcessedMessages
    \/ cleanupExpiredStates
    \/ \E t \in MessageTimes : RateTick(t)

SpecMessage == Init /\ [][NextMessage]_vars

----------------------------------------------------------------------------
(* The three rate-limited commands of a user who is close to a limit. *)

CommandInteractions == {"i1", "i2"}

\* Rows left by earlier use: two face swaps and nine searches of u1 in the
\* last minute, or three and ten.
CommandRateTables ==
    {MapSet(MapSet(EmptyMap, <<"u1", "faceswap">>, [k \in 1..n |-> 0 - Minute]),
            <<"u1", "gifsearch">>, [k \in 1..(n + 7) |-> 0 - Minute]) :
        n \in 2..3}

InitCommands ==
    /\ now = 0
    /\ activeSearches = EmptyMap
    /\ nativeGifStates = EmptyMap
    /\ savedFaces = EmptyMap
    /\ collectors = EmptyMap
    /\ flows = EmptyMap
    /\ flowCount = 0
    /\ usedInteractions = {}
    /\ issued = {}
    /\ sessionLog = EmptyMap
    /\ rateLimits \in CommandRateTables
    /\ processedMessages = {}
    /\ spawned = [m \in Messages |-> 0]
    /\ out = NoOut

NextCommands ==
    \/ \E u \in Users, i \in CommandInteractions, n \in FlowResultCounts :
          handleGifSearchCommand(u, i, n)
    \/ \E u \in Users, i \in CommandInteractions : handleFaceSwapCommand(u, i)
    \/ \E u \in Users, i \in CommandInteractions : handleFaceSwapGifCommand(u, i)
    \/ \E f \in DOMAIN flows, valid \in BOOLEAN : SwapCommandDeferred(f, valid)
    \/ \E f \in DOMAIN flows, ok \in BOOLEAN : SwapCommandJob(f, ok)
    \/ Tick

SpecCommands == InitCommands /\ [][NextCommands]_vars

----------------------------------------------------------------------------
(* /savemyface of a user who has two or three saved faces, with the
   asynchronous face storage: the read and the insert of saveFace are two
   awaited steps. *)

SaveFaceTables ==
    {[f \in {FaceId("u1", 0 - k * TickMs) : k \in 1..n} |->
         [user_id |-> "u1", usage_count |-> 0]] : n \in 2..3}

InitSaveFaces ==
    /\ now = 0
    /\ activeSearches = EmptyMap
    /\ nativeGifStates = EmptyMap
    /\ savedFaces \in SaveFaceTables
    /\ collectors = EmptyMap
    /\ flows = EmptyMap
    /\ flowCount = 0
    /\ usedInteractions = {}
    /\ issued = {}
    /\ sessionLog = EmptyMap
    /\ rateLimits = EmptyMap
    /\ processedMessages = {}
    /\ spawned = [m \in Messages |-> 0]
    /\ out = NoOut

NextSaveFaces ==
    \/ \E u \in Users : SaveMyFaceCommand(u, MaxSaveCollectors)
    \/ \E c \in DOMAIN collectors, a \in Users, ty \in ContentTypes :
          handleSaveMyFaceCollect(c, a, ty)
    \/ \E f \in DOMAIN flows : saveFaceGetUserFaces(f)
    \/ \E f \in DOMAIN flows : saveFaceCreate(f)
    \/ \E c \in DOMAIN collectors : handleSaveMyFaceEnd(c)
    \/ Tick

SpecSaveFaces == InitSaveFaces /\ [][NextSaveFaces]_vars

(* The search flow with a saved face and the asynchronous face storage.  The
   face buttons pressed carry the id of a saved face or of a face that was
   deleted after the buttons were shown. *)
DeletedFace == FaceId("u1", 0 - 2 * TickMs)

PressedFaces == DOMAIN savedFaces \cup {DeletedFace}

NextSelect ==
    \/ \E u \in Users, i \in InteractionIds, n \in FlowResultCounts :
          handleGifSearchCommand(u, i, n)
    \/ \E u \in Users, s \in SearchSessions, index \in PressedIndices :
          handleGifSelection(u, s, index)
    \/ \E u \in Users, s \in SearchSessions, f \in PressedFaces :
          SavedFaceSelection(u, s, f, TRUE)
    \/ \E f \in DOMAIN flows, ok \in BOOLEAN : processFaceSwapWithSavedFace(f, ok)
    \/ Tick

SpecSelect == Init /\ [][NextSelect]_vars

(* Session creation: searches started by distinct interactions and "Face
   Swap This GIF" used any number of times, also within one millisecond,
   and the press of the swap button of a session. *)
NextIds ==
    \/ \E u \in Users, i \in CommandInteractions, n \in FlowResultCounts :
          handleGifSearchCommand(u, i, n)
    \/ \E u \in Users, hasGif \in BOOLEAN :
          ContextCommand(u, hasGif, "guild", MaxIdSessions)
    \/ \E u \in Users, s \in NativeSessions : handleNativeGifSwapButton(u, s)
    \/ UploadTick

SpecIds == Init /\ [][NextIds]_vars

(* The upload button of either flow pressed more than once, and the images
   that arrive while the collectors are open. *)
NextCollectors ==
    \/ \E u \in Users, i \in InteractionIds, n \in FlowResultCounts :
          handleGifSearchCommand(u, i, n)
    \/ \E u \in Users, s \in SearchSessions, index \in PressedIndices :
          handleGifSelection(u, s, index)
    \/ \E u \in Users, s \in SearchSessions :
          FaceUploadPrompt(u, s, MaxOpenCollectors)
    \/ \E c \in DOMAIN collectors, a \in Users, ty \in ContentTypes :
          waitForFaceUploadCollect(c, a, ty)
    \/ \E c \in DOMAIN collectors : waitForFaceUploadEnd(c)
    \/ \E u \in Users, hasGif \in BOOLEAN : handleFaceSwapContextCommand(u, hasGif)
    \/ \E u \in Users, s \in NativeSessions :
          NativeGifFaceUpload(u, s, MaxOpenCollectors)
    \/ \E c \in DOMAIN collectors, a \in Users, ty \in ContentTypes :
          handleNativeGifFaceUploadCollect(c, a, ty)
    \/ \E c \in DOMAIN collectors : handleNativeGifFaceUploadEnd(c)
    \/ UploadTick

SpecCollectors == Init /\ [][NextCollectors]_vars

(* The native GIF flow with a saved face, from either entry (the message
   handler, the context menu command in a guild channel or in the direct
   messages) to the delivery of the result, all within one millisecond. *)
NextDeliver ==
    \/ \E m \in Messages, hasGif \in BOOLEAN, dmOk \in BOOLEAN :
          handleNativeGifMessage(m, hasGif, dmOk)
    \/ \E u \in Users, hasGif \in BOOLEAN, ch \in ChannelKinds :
          FaceSwapContextCommand(u, hasGif, ch)
    \/ \E u \in Users, s \in NativeSessions : handleNativeGifSwapButton(u, s)
    \/ \E u \in Users, s \in NativeSessions, f \in DOMAIN savedFaces :
          handleNativeGifFaceSelect(u, s, f)
    \/ \E f \in DOMAIN flows : handleNativeGifFaceSelectFaces(f)
    \/ \E f \in DOMAIN flows, ok \in BOOLEAN : processNativeGifFaceSwap(f, ok)

SpecDeliver == Init /\ [][NextDeliver]_vars

----------------------------------------------------------------------------
(* Properties of the search store *)

\* C1: every search session in the store has totalPages equal to the number
\* of results divided by 9 and rounded up, and a current page from 0 up to
\* totalPages - 1.
C1_PageBounds ==
    \A s \in DOMAIN activeSearches :
        LET state == activeSearches[s]
            n == Len(state.results)
        IN  /\ 9 * state.totalPages >= n
            /\ 9 * (state.totalPages - 1) < n
            /\ 0 <= state.currentPage
            /\ state.currentPage < state.totalPages

\* A session of three pages on its last page, with a GIF selected there.
C1_Witness ==
    \E s \in DOMAIN activeSearches :
        /\ Len(activeSearches[s].results) = 19
        /\ activeSearches[s].totalPages = 3
        /\ activeSearches[s].currentPage = 2
        /\ activeSearches[s].selectedGif = Some(18)

\* C2: "next" by the owner on the last page and "prev" by the owner on
\* page 0 leave the current page where it is, and no navigation moves the
\* current page by more than one page.
C2_NoWrap ==
    [][\A u \in Users, s \in DOMAIN activeSearches, d \in {"next", "prev"} :
         (handlePageNavigation(u, s, d) /\ u = activeSearches[s].userId) =>
            /\ s \in DOMAIN activeSearches'
            /\ (d = "next"
                  /\ activeSearches[s].currentPage = activeSearches[s].totalPages - 1)
                 => activeSearches'[s].currentPage = activeSearches[s].currentPage
            /\ (d = "prev" /\ activeSearches[s].currentPage = 0)
                 => activeSearches'[s].currentPage = 0
            /\ activeSearches'[s].currentPage - activeSearches[s].currentPage
                 \in {0 - 1, 0, 1}
            /\ d = "next"
                 => activeSearches'[s].currentPage >= activeSearches[s].currentPage
            /\ d = "prev"
                 => activeSearches'[s].currentPage <= activeSearches[s].currentPage]_vars

\* The owner has just pressed "next" on a session of a single page, which is
\* its last page: the session is still on page 0.
C2_Witness ==
    \E s \in DOMAIN activeSearches :
        /\ out.action = "gif_next"
        /\ out.msg = "Showing page"
        /\ out.id = Some(s)
        /\ out.user = activeSearches[s].userId
        /\ Len(activeSearches[s].results) = 9
        /\ activeSearches[s].totalPages = 1
        /\ activeSearches[s].currentPage = 0

\* C3: the page at index p of a session with n results holds the results
\* 9p .. min(9p + 8, n - 1) in their order; 23 results are three pages, of
\* items 0-8, 9-17 and 18-22.
C3_PageContents ==
    \A s \in DOMAIN activeSearches :
        LET state == activeSearches[s]
            n == Len(state.results)
            p == state.currentPage
            last == IF 9 * p + 8 < n - 1 THEN 9 * p + 8 ELSE n - 1
            page == getCurrentPageGifs(state)
        IN  /\ Len(page) = last - 9 * p + 1
            /\ \A k \in 1..Len(page) : page[k] = state.results[9 * p + k]
            /\ n = 23 =>
                 /\ state.totalPages = 3
                 /\ p = 0 => page = <<0, 1, 2, 3, 4, 5, 6, 7, 8>>
                 /\ p = 1 => page = <<9, 10, 11, 12, 13, 14, 15, 16, 17>>
                 /\ p = 2 => page = <<18, 19, 20, 21, 22>>

\* A session with 23 results on its third page, whose last GIF was selected.
C3_Witness ==
    \E s \in DOMAIN activeSearches :
        /\ Len(activeSearches[s].results) = 23
        /\ activeSearches[s].currentPage = 2
        /\ activeSearches[s].selectedGif = Some(18)
        /\ out.action = "gif_select"

----------------------------------------------------------------------------
(* Properties of the /gifsearch flow *)

\* C4: a press of any button of a search session (GIF select, next, prev,
\* cancel, saved-face select, upload-new) by a user who is not its owner
\* is answered with a rejection and leaves the session in the store as it
\* was; it starts no job and opens no upload window.
C4_NonOwnerRejected ==
    [][\A u \in Users, s \in DOMAIN activeSearches :
         (/\ u # activeSearches[s].userId
          /\ \/ \E index \in PressedIndices : handleGifSelection(u, s, index)
             \/ \E d \in {"next", "prev"} : handlePageNavigation(u, s, d)
             \/ handleSearchCancel(u, s)
             \/ \E f \in DOMAIN savedFaces : handleSavedFaceSelection(u, s, f)
             \/ handleFaceUploadPrompt(u, s))
         => /\ s \in DOMAIN activeSearches'
            /\ activeSearches'[s] = activeSearches[s]
            /\ out'.user = u
            /\ out'.msg \in {"This is not your search", "No GIF selected",
                              "Invalid state"}
            /\ flows' = flows
            /\ collectors' = collectors
            /\ sessionLog' = sessionLog]_vars

\* A user who is not the owner has pressed "upload new face" on a session
\* with a selected GIF and was turned down; the session is still there.
C4_Witness ==
    \E s \in DOMAIN activeSearches :
        /\ out.action = "face_upload"
        /\ out.id = Some(s)
        /\ out.user # activeSearches[s].userId
        /\ out.msg = "This is not your search"
        /\ activeSearches[s].selectedGif # None
        /\ activeSearches[s].currentPage = 1

\* C10: the face selection shown to a user without saved faces has the
\* upload button and nothing else; when that user, asked to upload, sends a
\* PNG image while the window is open, the session, which has been in
\* AWAITING_UPLOAD, moves to SUBMITTING with a swap job started for it and
\* has never been in FACE_CHOSEN.
C10_UploadOnly ==
    /\ [](\A u \in Users :
            (/\ out.action = "gif_select"
             /\ out.user = u
             /\ out.data # None
             /\ \A f \in DOMAIN savedFaces : savedFaces[f].user_id # u)
            => out.data[1] = << {<<"face_upload", out.id[1]>>} >>)
    /\ [][\A c \in DOMAIN collectors :
            (/\ waitForFaceUploadCollect(c, collectors[c].userId, "image/png")
             /\ \A f \in DOMAIN savedFaces :
                    savedFaces[f].user_id # collectors[c].userId)
            => LET s == collectors[c].session[1]
               IN  /\ "AWAITING_UPLOAD" \in sessionLog[s].visited
                   /\ sessionLog'[s].phase = "SUBMITTING"
                   /\ "FACE_CHOSEN" \notin sessionLog'[s].visited
                   /\ flowCount' = flowCount + 1
                   /\ flowCount' \in DOMAIN flows'
                   /\ flows'[flowCount'].session = s
                   /\ flows'[flowCount'].kind = "upload"]_vars

\* A user without saved faces has uploaded a PNG for a session that went
\* CREATED, AWAITING_SELECTION, AWAITING_UPLOAD and is now in SUBMITTING.
C10_Witness ==
    \E s \in DOMAIN sessionLog :
        /\ out.action = "message"
        /\ out.msg = "Downloading files"
        /\ out.id = Some(s)
        /\ \A f \in DOMAIN savedFaces : savedFaces[f].user_id # out.user
        /\ sessionLog[s].phase = "SUBMITTING"
        /\ sessionLog[s].visited =
             {"CREATED", "AWAITING_SELECTION", "AWAITING_UPLOAD", "SUBMITTING"}
        /\ \E f \in DOMAIN flows : flows[f].session = s /\ flows[f].kind = "upload"

----------------------------------------------------------------------------
(* Properties of the state manager *)

\* C5: when an update has returned success, a get of the same id directly
\* afterwards returns a session in which every field of the update has the
\* value passed to the update.
C5_UpdateThenGet ==
    (/\ out.action \in {"updateSearchState", "updateNativeGifState"}
     /\ out.msg = "success") =>
        LET id == out.id[1]
            updates == out.data[1]
            got == IF out.action = "updateSearchState"
                   THEN getSearchState(activeSearches, id)
                   ELSE getNativeGifState(nativeGifStates, id)
        IN  /\ got # None
            /\ \A k \in DOMAIN updates : got[1][k] = updates[k]

\* Both updates have succeeded: a search session carries the page and the
\* GIF just written, and a native GIF session carries a selected face.
C5_Witness ==
    /\ out.action = "updateSearchState"
    /\ out.msg = "success"
    /\ out.data = Some([currentPage |-> 1, selectedGif |-> Some(PAGE_SIZE)])
    /\ activeSearches[out.id[1]].currentPage = 1
    /\ activeSearches[out.id[1]].selectedGif = Some(PAGE_SIZE)
    /\ activeSearches[out.id[1]].timestamp = now
    /\ now > 0
    /\ \E s \in DOMAIN nativeGifStates : nativeGifStates[s].selectedFaceId # None

\* C6: an update never returns success unless the record then carries the
\* values of the update; an update of an id that is not in the store fails
\* and creates no record; and an update after which the record is gone or
\* differs from the values of the update returns a failure.
C6_NoSilentSuccess ==
    [][/\ \A s \in SearchSessions \cup {UnknownSearchId},
             updates \in SearchUpdates, fault \in StoreFaults :
            CallUpdateSearchState(s, updates, fault) =>
              /\ s \notin DOMAIN activeSearches =>
                   /\ out'.msg = "Search state not found"
                   /\ activeSearches' = activeSearches
              /\ out'.msg = "success" =>
                   /\ s \in DOMAIN activeSearches'
                   /\ \A k \in DOMAIN updates : activeSearches'[s][k] = updates[k]
              /\ (/\ s \in DOMAIN activeSearches
                  /\ \/ s \notin DOMAIN activeSearches'
                     \/ \E k \in DOMAIN updates : activeSearches'[s][k] # updates[k])
                   => out'.msg \in {"State verification failed",
                                    "Update verification failed"}
       /\ \A s \in NativeSessions \cup {UnknownNativeId},
             updates \in NativeUpdates, fault \in StoreFaults :
            CallUpdateNativeGifState(s, updates, fault) =>
              /\ s \notin DOMAIN nativeGifStates =>
                   /\ out'.msg # "success"
                   /\ nativeGifStates' = nativeGifStates
              /\ out'.msg = "success" =>
                   /\ s \in DOMAIN nativeGifStates'
                   /\ \A k \in DOMAIN updates : nativeGifStates'[s][k] = updates[k]
              /\ (/\ s \in DOMAIN nativeGifStates
                  /\ \/ s \notin DOMAIN nativeGifStates'
                     \/ \E k \in DOMAIN updates : nativeGifStates'[s][k] # updates[k])
                   => out'.msg # "success"]_vars

\* C7: a sweep removes exactly the sessions whose timestamp is more than
\* their timeout ago (10 minutes for a search session, 5 minutes for a
\* native GIF session) and leaves the others as they were; the passing of
\* time alone removes no session.
C7_SweepExactlyExpired ==
    [][/\ cleanupExpiredStates =>
            /\ \A s \in DOMAIN activeSearches :
                 /\ s \notin DOMAIN activeSearches'
                      <=> now - activeSearches[s].timestamp > 600000
                 /\ s \in DOMAIN activeSearches'
                      => activeSearches'[s] = activeSearches[s]
            /\ \A s \in DOMAIN nativeGifStates :
                 /\ s \notin DOMAIN nativeGifStates'
                      <=> now - nativeGifStates[s].timestamp > 300000
                 /\ s \in DOMAIN nativeGifStates'
                      => nativeGifStates'[s] = nativeGifStates[s]
            /\ DOMAIN activeSearches' \subseteq DOMAIN activeSearches
            /\ DOMAIN nativeGifStates' \subseteq DOMAIN nativeGifStates
       /\ Tick =>
            /\ activeSearches' = activeSearches
            /\ nativeGifStates' = nativeGifStates]_vars

\* A sweep has just removed a search session last touched 15 minutes ago
\* and kept a native GIF session last touched exactly 5 minutes ago.
C7_Witness ==
    /\ out = NoOut
    /\ now = 900000
    /\ \E s \in SearchSessions :
          /\ s \notin DOMAIN activeSearches
          /\ sessionLog[s].phase = "EXPIRED"
    /\ \E s \in DOMAIN nativeGifStates : now - nativeGifStates[s].timestamp = 300000

----------------------------------------------------------------------------
(* Properties of the upload windows and of the end of a flow *)

\* C8: an upload window accepts at most one message, and is over once it
\* has accepted one: from then on it does not change, so that no later
\* message of the awaited user is accepted, and the jobs started are as many
\* as the messages accepted.
C8_OneMessagePerWindow ==
    /\ [](\A c \in DOMAIN collectors :
            /\ collectors[c].accepted <= 1
            /\ collectors[c].accepted = 1 => collectors[c].ended)
    /\ [](LET RECURSIVE Accepted(_)
              Accepted(n) == IF n = 0 THEN 0
                             ELSE collectors[n].accepted + Accepted(n - 1)
          IN  flowCount = Accepted(Cardinality(DOMAIN collectors)))
    /\ [][\A c \in DOMAIN collectors :
            collectors[c].accepted = 1 => collectors'[c] = collectors[c]]_vars

\* The window of a search session has accepted its one image, and the job
\* started for it is still being processed.
C8_Witness ==
    \E c \in DOMAIN collectors, f \in DOMAIN flows :
        /\ collectors[c].kind = "search"
        /\ collectors[c].accepted = 1
        /\ now < collectors[c].deadline
        /\ flows[f].kind = "upload"
        /\ flows[f].session = collectors[c].session[1]
        /\ flows[f].pc = "polling"

\* C9: a session whose flow is in DELIVERED or FAILED is in neither store,
\* and no step changes what is recorded for it: its state stays as it is and
\* no further remote job is created for it.
C9_TerminalIsFinal ==
    [][\A s \in DOMAIN sessionLog :
         /\ sessionLog'[s].phase \in {"DELIVERED", "FAILED"} =>
              /\ s \notin DOMAIN activeSearches'
              /\ s \notin DOMAIN nativeGifStates'
         /\ sessionLog[s].phase \in {"DELIVERED", "FAILED"} =>
              sessionLog'[s] = sessionLog[s]]_vars

----------------------------------------------------------------------------
(* Properties of the rate limiter *)

\* C11: when a user's face-swap row holds exactly three timestamps that lie
\* within two minutes of each other, a check made less than ten minutes after
\* the oldest of them is denied with a wait of at least one minute, and a
\* check made ten minutes or more after the youngest is allowed.
C11_BurstWindow ==
    [][\A u \in Users :
         LET ts == StoredTimestamps(rateLimits, u, "faceswap")
         IN  (/\ CallCheckRateLimit(u, "faceswap")
              /\ Len(ts) = 3
              /\ ts[3] - ts[1] <= 2 * Minute
              /\ ts[1] <= ts[2] /\ ts[2] <= ts[3])
             => /\ now < ts[1] + BURST_LIMIT.timeWindow
                    => /\ out'.msg \in {"Too many requests", "Rate limit exceeded"}
                       /\ out'.data # None
                       /\ out'.data[1] >= 1
                /\ now >= ts[3] + BURST_LIMIT.timeWindow
                    => out'.msg = "allowed"]_vars

\* Three face swaps recorded at three different instants within two minutes,
\* and the check nine minutes after the oldest was just denied.
C11_Witness ==
    LET ts == StoredTimestamps(rateLimits, "u1", "faceswap")
    IN  /\ out.action = "checkRateLimit"
        /\ out.id = Some("faceswap")
        /\ Len(ts) = 3
        /\ ts[1] < ts[2] /\ ts[2] < ts[3]
        /\ ts[3] - ts[1] <= 2 * Minute
        /\ now = ts[1] + 9 * Minute
        /\ out.msg = "Too many requests"

C16_TwoWindows ==
    [][\A u \in Users, a \in ActionTypes :
         LET ts == StoredTimestamps(rateLimits, u, a)
             within(w) == Cardinality({k \in 1..Len(ts) : now - ts[k] < w})
             hour == 60 * 60 * 1000
             burst == 10 * 60 * 1000
         IN  CallCheckRateLimit(u, a) =>
               (out'.msg # "allowed"
                  <=> IF a = "faceswap"
                      THEN within(hour) >= 5 \/ within(burst) >= 3
                      ELSE within(hour) >= 10)]_vars

\* A face-swap check was just denied by the hourly limit alone: five
\* timestamps in the last hour, fewer than three in the last ten minutes.
C16_Witness ==
    LET ts == StoredTimestamps(rateLimits, "u1", "faceswap")
    IN  /\ out.action = "checkRateLimit"
        /\ out.id = Some("faceswap")
        /\ out.msg = "Rate limit exceeded"
        /\ Cardinality({k \in 1..Len(ts) : now - ts[k] < 60 * Minute}) = 5
        /\ Cardinality({k \in 1..Len(ts) : now - ts[k] < 10 * Minute}) < 3

\* C17: a command whose rate-limit check is denied answers with the denial
\* and a wait of at least one minute, and creates no session, records no
\* action and starts no job.
C17_DeniedDoesNothing ==
    [][\A u \in Users, i \in CommandInteractions :
         LET denied(a) == checkRateLimit(rateLimits, u, a, now) # None
             refused == /\ out'.msg \in {"Rate limit exceeded", "Too many requests"}
                        /\ out'.user = u
                        /\ out'.data # None
                        /\ out'.data[1] >= 1
                        /\ UNCHANGED <<rateLimits, activeSearches, nativeGifStates,
                                       issued, sessionLog, flows, flowCount,
                                       collectors>>
         IN  /\ (denied("faceswap") /\ handleFaceSwapCommand(u, i)) => refused
             /\ (denied("faceswap") /\ handleFaceSwapGifCommand(u, i)) => refused
             /\ (denied("gifsearch")
                   /\ \E n \in FlowResultCounts : handleGifSearchCommand(u, i, n))
                 => refused]_vars

\* The user's third face swap of the minute was recorded by a command, and
\* the next command was just refused.
C17_Witness ==
    /\ out.action \in {"image", "video"}
    /\ out.msg = "Too many requests"
    /\ usedInteractions = CommandInteractions
    /\ Len(rateLimits[<<"u1", "faceswap">>]) = 3
    /\ rateLimits[<<"u1", "faceswap">>][3] = now
    /\ DOMAIN sessionLog = {CommandId(i) : i \in CommandInteractions \ {"i2"}}
          \/ DOMAIN sessionLog = {CommandId(i) : i \in CommandInteractions \ {"i1"}}

----------------------------------------------------------------------------
(* Properties of the polling loop *)

\* C12: with N = 60 for an image job and N = 120 for a media job: a job whose
\* first N-1 status requests were answered pending and whose N-th is answered
\* complete is DELIVERED; a job whose N-th status request is answered pending
\* too is FAILED with the timeout message; and no job is asked for its status
\* more than N times.
C12_PollCeiling ==
    [][\A f \in DOMAIN flows :
         LET job == flows[f]
             N == IF job.kind = "image" THEN 60 ELSE 120
         IN  /\ (job.pc = "polling" /\ job.attempts = N - 1 /\ SwapJobStep(f, TRUE))
                 => /\ sessionLog'[job.session].phase = "DELIVERED"
                    /\ out'.msg = "Face swap complete"
                    /\ out'.data = Some(N)
             /\ (job.pc = "polling" /\ job.attempts = N - 1 /\ PollPending(f))
                 => /\ sessionLog'[job.session].phase = "FAILED"
                    /\ out'.msg = "Face swap failed: timed out"
                    /\ out'.data = Some(N)
                    /\ f \notin DOMAIN flows'
             /\ (job.pc = "polling" /\ f \in DOMAIN flows')
                 => flows'[f].attempts < N
             /\ (job.pc = "polling" /\ f \notin DOMAIN flows')
                 => out'.data[1] <= N]_vars

\* An image job was just delivered at its 60th status request.
C12_Witness ==
    /\ out.action = "job"
    /\ out.msg = "Face swap complete"
    /\ out.data = Some(60)
    /\ \E s \in DOMAIN sessionLog :
          /\ out.id = Some(s)
          /\ sessionLog[s].phase = "DELIVERED"
          /\ sessionLog[s].jobs = 1

----------------------------------------------------------------------------
(* Properties of job submission *)

\* C13: for every session at most one remote face-swap job is ever created.
C13_OneJobPerSession ==
    \A s \in DOMAIN sessionLog : sessionLog[s].jobs <= 1

----------------------------------------------------------------------------
(* Properties of the message handler *)

\* C14: no message id has spawned more than one swap session.
C14_OneSessionPerMessage ==
    \A m \in Messages : spawned[m] <= 1

----------------------------------------------------------------------------
(* Properties of session cleanup *)

\* C18: a session whose flow has entered a terminal state (DELIVERED, FAILED,
\* CANCELLED, EXPIRED) is in neither store.
C18_TerminalDeleted ==
    \A s \in DOMAIN sessionLog :
        sessionLog[s].phase \in {"DELIVERED", "FAILED", "CANCELLED", "EXPIRED"}
            => /\ s \notin DOMAIN activeSearches
               /\ s \notin DOMAIN nativeGifStates

----------------------------------------------------------------------------
(* Properties of the saved faces *)

\* C19: every user owns at most 3 rows of saved_faces.
C19_AtMostThreeFaces ==
    \A u \in Users : Cardinality(getUserFaces(savedFaces, u)) <= 3

\* C20: a GIF swap flow that has reported success (DELIVERED) has sent its
\* result to the channel the flow was triggered in: the result was not
\* dropped and did not go to a direct message.
C20_DeliveredToTriggeringChannel ==
    \A s \in DOMAIN sessionLog :
        sessionLog[s].phase = "DELIVERED"
            => /\ sessionLog[s].sentTo = sessionLog[s].origin
               /\ sessionLog[s].sentTo = "guild"

\* C21: in the inline swap flow a face selection or an upload proceeds to
\* staging only for the owner of the session, and the selected face of a
\* session belongs to the owner of the session.
C21_OnlyOwnerProceeds ==
    /\ \A f \in DOMAIN flows :
           flows[f].kind \in {"nativeSaved", "nativeUpload"}
               => flows[f].userId = flows[f].session[2]
    /\ \A s \in DOMAIN nativeGifStates :
           nativeGifStates[s].selectedFaceId # None
               => getFaceById(savedFaces, nativeGifStates[s].selectedFaceId[1],
                              nativeGifStates[s].userId) # None

\* C22: a saved-face selection that fails a check (wrong user, no GIF
\* selected, face missing or of another user) answers with an error and
\* leaves the session, the usage counters, the jobs and the flows as they were.
C22_FailedSelectionTouchesNothing ==
    [][\A u \in Users, s \in SearchSessions, f \in PressedFaces :
         LET state == getSearchState(activeSearches, s)
             fails == /\ state # None
                      /\ \/ u # state[1].userId
                         \/ state[1].selectedGif = None
                         \/ getFaceById(savedFaces, f, u) = None
         IN  (fails /\ \E b \in BOOLEAN : SavedFaceSelection(u, s, f, b))
                 => /\ out'.msg \in {"This is not your search", "No GIF selected",
                                     "Face not found"}
                    /\ UNCHANGED <<activeSearches, savedFaces, flows, flowCount,
                                   sessionLog>>]_vars

\* C23: the wait of a denial is the least whole number of minutes that
\* reaches oldest + window - now, where oldest is the oldest stored
\* timestamp inside the window of the limit that denied (60 minutes for
\* "Rate limit exceeded", 10 minutes for "Too many requests"); it is at
\* least 1 and at most the length of the window in minutes.
C23_WaitInWholeMinutes ==
    [][(out'.action = "checkRateLimit" /\ out'.msg # "allowed") =>
         LET row == StoredTimestamps(rateLimits, out'.user, out'.id[1])
             timeWindow == IF out'.msg = "Rate limit exceeded" THEN 60 * Minute
                           ELSE 10 * Minute
             inside == {row[k] : k \in 1..Len(row)} \cap
                       {ts \in Int : ts > now - timeWindow}
             oldest == CHOOSE ts \in inside : \A other \in inside : ts <= other
             wait == out'.data[1]
         IN  /\ inside # {}
             /\ wait * Minute >= oldest + timeWindow - now
             /\ (wait - 1) * Minute < oldest + timeWindow - now
             /\ wait >= 1
             /\ wait * Minute <= timeWindow]_vars

\* A burst denial 59.999 seconds before the oldest of three face swaps
\* leaves the 10-minute window: the wait is 1 minute.
C23_Witness ==
    /\ out.action = "checkRateLimit"
    /\ out.msg = "Too many requests"
    /\ now = 9 * Minute + 1
    /\ rateLimits[<<"u1", "faceswap">>] = <<0, Minute, 2 * Minute>>
    /\ out.data = Some(1)

\* C24: when the upload window of a collector of the search flow or of the
\* inline swap flow ends with no image accepted, the collector is closed,
\* the awaited user gets the timeout notice, and the session is in neither
\* store afterwards (EXPIRED if it was still there).
C24_UploadTimeoutExpires ==
    [][\A c \in DOMAIN collectors :
         LET col == collectors[c]
             s == col.session[1]
         IN  (/\ ~col.collected
              /\ waitForFaceUploadEnd(c) \/ handleNativeGifFaceUploadEnd(c))
             => /\ collectors'[c].ended
                /\ out' = Reply("timeout", col.userId, s, "Timeout")
                /\ s \notin DOMAIN activeSearches'
                /\ s \notin DOMAIN nativeGifStates'
                /\ (s \in DOMAIN activeSearches \cup DOMAIN nativeGifStates)
                      => sessionLog'[s].phase = "EXPIRED"]_vars

\* C25: a cancel for a session that is gone, from another user than the
\* owner, or after submission has begun (a job of the session is in flight)
\* changes no session and is not answered as a cancellation.
C25_CancelOnlyBeforeSubmission ==
    [][\A u \in Users, s \in SearchSessions :
         LET state == getSearchState(activeSearches, s)
             submitted == \/ sessionLog[s].phase \in {"SUBMITTING", "POLLING"}
                          \/ \E f \in DOMAIN flows : flows[f].session = s
             honoured == /\ state # None
                         /\ u = state[1].userId
                         /\ ~submitted
         IN  (~honoured /\ handleSearchCancel(u, s))
                 => /\ out'.msg # "Search cancelled"
                    /\ UNCHANGED <<activeSearches, sessionLog>>]_vars

\* C26: a status request that throws before the ceiling does not end the
\* flow: the job is still being polled afterwards and its session is not
\* FAILED.
C26_ThrownPollIsRetried ==
    [][\A f \in DOMAIN flows :
         (flows[f].attempts + 1 < maxAttempts(flows[f].kind) /\ PollThrows(f))
             => /\ f \in DOMAIN flows'
                /\ flows'[f].pc = "polling"
                /\ sessionLog'[flows[f].session].phase # "FAILED"]_vars

C28_FreshSessionIds ==
    [][/\ \A u \in Users, i \in CommandInteractions, n \in FlowResultCounts :
            (/\ n > 0
             /\ checkRateLimit(rateLimits, u, "gifsearch", now) = None
             /\ handleGifSearchCommand(u, i, n))
                => SearchId(i, now) \notin DOMAIN activeSearches
       /\ \A u \in Users :
            ContextCommand(u, TRUE, "guild", MaxIdSessions)
                => NativeId(u, now) \notin DOMAIN nativeGifStates]_vars

\* C29: every session has at most one open upload collector.
C29_OneCollectorPerSession ==
    \A c, d \in DOMAIN collectors :
        (/\ collectors[c].kind \in {"search", "native"}
         /\ collectors[c].session = collectors[d].session
         /\ ~collectors[c].ended
         /\ ~collectors[d].ended)
            => c = d

\* C30: a search session moves in the order of its state machine.  A
\* saved-face selection or an upload-new action on a session that has no
\* selected GIF is refused and changes no session, collector or job; and a job
\* of a search session exists only after a GIF was selected and a face was
\* chosen (saved face) or the upload was asked for (uploaded face).
C30_StateMachineOrder ==
    [][ /\ \A u \in Users, s \in DOMAIN activeSearches :
               (/\ activeSearches[s].selectedGif = None
                /\ \/ \E f \in DOMAIN savedFaces : handleSavedFaceSelection(u, s, f)
                   \/ handleFaceUploadPrompt(u, s))
                   => /\ out'.msg \in {"No GIF selected", "Invalid state",
                                       "Search session expired"}
                      /\ UNCHANGED <<activeSearches, collectors, flows,
                                     flowCount, sessionLog>>
        /\ \A f \in DOMAIN flows' :
               flows'[f].kind \in {"saved", "upload"}
                   => LET visited == sessionLog'[flows'[f].session].visited
                      IN  /\ "AWAITING_SELECTION" \in visited
                          /\ flows'[f].kind = "saved" => "FACE_CHOSEN" \in visited
                          /\ flows'[f].kind = "upload"
                                 => "AWAITING_UPLOAD" \in visited
      ]_vars

\* A face button pressed on a search without a selected GIF was refused.
C30_Witness ==
    /\ out.action = "face_select"
    /\ out.msg = "No GIF selected"
    /\ out.id # None
    /\ out.id[1] \in DOMAIN activeSearches
    /\ activeSearches[out.id[1]].selectedGif = None
    /\ flows = EmptyMap
    /\ collectors = EmptyMap

\* C31: when the session update made by a handler reports a failure, the
\* handler does not go on with the flow of that session, and the session is
\* not in the store afterwards.
C31_FailedUpdateInvalidates ==
    [][ \A f \in DOMAIN flows :
           (/\ flows[f].kind = "nativeSaved"
            /\ flows[f].pc = "faces"
            /\ flows[f].faceId[1] \in getUserFaces(savedFaces, flows[f].userId)
            /\ ~updateNativeGifState(nativeGifStates, flows[f].session,
                                     [selectedFaceId |-> flows[f].faceId],
                                     now, "none").success
            /\ handleNativeGifFaceSelectFaces(f))
               => /\ f \notin DOMAIN flows'
                  /\ flows[f].session \notin DOMAIN nativeGifStates'
                  /\ sessionLog'[flows[f].session].phase
                         \notin {"FACE_CHOSEN", "SUBMITTING", "POLLING"}
      ]_vars

\* C32: a recording loses nothing.  The row after recordAction holds every
\* timestamp of the row before it that is inside the retention period,
\* followed by the new timestamp.
C32_NoLostUpdate ==
    [][ \A f \in DOMAIN flows :
           recordActionUpsert(f) =>
               LET u == flows[f].userId
                   a == flows[f].session
               IN  StoredTimestamps(rateLimits', u, a)
                     = Append(Younger(StoredTimestamps(rateLimits, u, a),
                                      now - RETENTION), now)
      ]_vars

C34_JobsAreRateLimited ==
    \A f \in DOMAIN flows :
        flows[f].pc = "polling"
            => StoredTimestamps(rateLimits, flows[f].userId, "faceswap") # << >>

\* C35: every expiry removes the session from the store and tells the user:
\* the step in which a session expires sends the expiry notice for it.
C35_ExpiryNotifies ==
    [][ \A s \in DOMAIN sessionLog :
           (sessionLog[s].phase # "EXPIRED" /\ sessionLog'[s].phase = "EXPIRED")
               => /\ s \notin DOMAIN activeSearches'
                  /\ s \notin DOMAIN nativeGifStates'
                  /\ out'.msg = "Timeout"
                  /\ out'.id = Some(s)
      ]_vars

\* C36: the selected GIF of a search is drawn from its results.  A selection
\* by the owner stores the result at position index of the current page; a
\* selection with an index beyond the page is refused and leaves the
\* sessions as they were; and every selected GIF is one of the results of
\* its session.
C36_SelectedGifFromResults ==
    [][ /\ \A u \in Users, s \in DOMAIN activeSearches, index \in PressedIndices :
               (u = activeSearches[s].userId /\ handleGifSelection(u, s, index))
                   => LET state == activeSearches[s]
                          position == state.currentPage * PAGE_SIZE + index + 1
                      IN  IF /\ position <= Len(state.results)
                             /\ index < PAGE_SIZE
                          THEN /\ s \in DOMAIN activeSearches'
                               /\ activeSearches'[s].selectedGif
                                     = Some(state.results[position])
                          ELSE /\ out'.msg = "Invalid GIF selection"
                               /\ UNCHANGED activeSearches
        /\ \A s \in DOMAIN activeSearches' :
               activeSearches'[s].selectedGif # None
                   => \E k \in 1..Len(activeSearches'[s].results) :
                          activeSearches'[s].results[k]
                            = activeSearches'[s].selectedGif[1]
      ]_vars

\* The last GIF of the second page is the selected GIF of a search.
C36_Witness ==
    /\ out.action = "gif_select"
    /\ out.msg = "Choose a face"
    /\ out.id # None
    /\ out.id[1] \in DOMAIN activeSearches
    /\ LET state == activeSearches[out.id[1]]
       IN  /\ state.currentPage = 1
           /\ state.selectedGif = Some(state.results[Len(state.results)])

\* C37: a message that is not the awaited upload does not use up the upload
\* window.  A message of another user, without attachment, or with an
\* attachment of a type that is not allowed changes no collector, job or
\* session; an allowed image of the awaited user that reaches an open window
\* is accepted and starts the job.
C37_WindowSurvivesOtherMessages ==
    [][ \A c \in DOMAIN collectors, a \in Users, ty \in ContentTypes :
           LET col == collectors[c]
               refused == \/ a # col.userId
                          \/ ty \in {"none", "text/plain"}
                          \/ col.kind = "search" /\ ty = "image/gif"
           IN  (\/ waitForFaceUploadCollect(c, a, ty)
                \/ handleNativeGifFaceUploadCollect(c, a, ty))
                   => IF refused
                      THEN UNCHANGED <<collectors, flows, flowCount,
                                       activeSearches, nativeGifStates,
                                       sessionLog>>
                      ELSE /\ collectors'[c].accepted = col.accepted + 1
                           /\ flowCount' = flowCount + 1
                           /\ \E f \in DOMAIN flows' \ DOMAIN flows :
                                  flows'[f].session = col.session[1]
      ]_vars

\* An attachment of a wrong type was answered and the window is still open.
C37_Witness ==
    /\ out.action = "message"
    /\ out.msg = "Please upload a valid image"
    /\ flows = EmptyMap
    /\ \E c \in DOMAIN collectors :
           /\ collectors[c].kind = "search"
           /\ ~collectors[c].ended
           /\ ~collectors[c].collected
           /\ collectors[c].session = out.id
           /\ collectors[c].session[1] \in DOMAIN activeSearches
           /\ now < collectors[c].deadline

\* C38: button ids round-trip.  The handler that a pressed button is
\* dispatched to reads from its customId the session id, the face id and the
\* index the button was built with.
C38_ButtonIdsRoundTrip ==
    out.action = "button" =>
        /\ out.data[1].parsed = out.data[1].built
        /\ out.data[1].parsed.handler # "none"
        /\ out.data[1].parsed.sessionId = Text(out.id[1])

\* A face button in the legacy format was pressed and decoded.
C38_Witness ==
    /\ out.action = "button"
    /\ out.msg = "face_select_legacy"
    /\ out.data[1].parsed.handler = "handleSavedFaceSelection"
    /\ out.data[1].parsed.sessionId = <<"i1", "_", ToString(TickMs)>>
    /\ out.data[1].parsed.faceId = <<"face", "_", "u2", "_", ToString(0)>>

\* C39: the gate holds under interleaving.  Among the recorded face swaps of
\* a user, which are the commands that passed the gate, no more than three
\* lie in any ten minutes and no more than five in any sixty minutes.
C39_GateHoldsUnderInterleaving ==
    \A u \in Users :
        LET row == StoredTimestamps(rateLimits, u, "faceswap")
            within(k, window) ==
                {j \in 1..Len(row) : row[j] <= row[k] /\ row[j] > row[k] - window}
        IN  \A k \in 1..Len(row) :
                /\ Cardinality(within(k, BURST_LIMIT.timeWindow))
                      <= BURST_LIMIT.maxActions
                /\ Cardinality(within(k, RATE_LIMITS("faceswap").timeWindow))
                      <= RATE_LIMITS("faceswap").maxActions

\* C40: the assets of a job are staged, and the job is submitted, only while
\* its session is in the store: a flow of a swap session that starts, or
\* moves on to, staging or polling does so for a stored session.
C40_JobOnlyForStoredSession ==
    [][ \A f \in DOMAIN flows' :
           (/\ flows'[f].kind \in {"saved", "upload", "nativeSaved", "nativeUpload"}
            /\ flows'[f].pc \in {"faceUpload", "staging", "polling"}
            /\ f \in DOMAIN flows => flows[f].pc # flows'[f].pc)
               => \/ flows'[f].session \in DOMAIN activeSearches
                  \/ flows'[f].session \in DOMAIN nativeGifStates
      ]_vars

============================================================================
